---- MODULE Spec2Model ----
(***************************************************************************)
(* The money-muling detection engine (backend/app): the analysis pipeline  *)
(* of main._run_analysis -- build_graph, detect_cycles, detect_smurfing,   *)
(* detect_shells, build_account_profiles + apply_filters,                  *)
(* calculate_scores, the smurf ring assignment, build_suspicious_accounts  *)
(* and build_fraud_rings -- as a state machine over one transaction table. *)
(*                                                                         *)
(* Representation.                                                         *)
(*   account id    a natural number: the rank of the id string in string   *)
(*                 order (ids are opaque strings; only equality and order  *)
(*                 are used by the code)                                   *)
(*   amount        whole dollars (sums of whole dollars are whole, so the  *)
(*                 code's round(x, 2) of a total leaves it unchanged)      *)
(*   timestamp     minutes since the first instant of the table; the       *)
(*                 table's timestamp strings are parseable and in one      *)
(*                 format, so string order is time order                   *)
(*   score         whole points (every contribution and every penalty of   *)
(*                 _score_account is a whole number, so round(score, 1)    *)
(*                 leaves it unchanged)                                    *)
(*   ring id       <<"RING", n>> for f"RING_{n:03d}", <<"SMURF", a>> for   *)
(*                 f"SMURF_{a}", <<>> for the empty string                 *)
(*   velocity_per_hour, time_span_hours, risk_score                        *)
(*                 fixed point: hundredths, hundredths, tenths             *)
(***************************************************************************)
EXTENDS Integers, Sequences, FiniteSets, TLC

VARIABLES
    df,                 \* the transaction table _run_analysis receives
    order,              \* iteration order of the set all_accounts (graph_builder.py:26,41)
    pc,                 \* position of _run_analysis
    G,                  \* the MultiDiGraph built by build_graph
    cycles,             \* detect_cycles(G, df)
    smurfing_results,   \* detect_smurfing(df)
    shell_results,      \* detect_shells(G)
    profiles,           \* the map account id -> AccountProfile, in insertion order
    scores,             \* the map account id -> score, in insertion order
    suspicious,         \* build_suspicious_accounts(...)
    fraud_rings,        \* build_fraud_rings(...)
    analyses,           \* the registry analysis id -> AnalysisStatusResponse (main.py:58)
    graph_cache,        \* analysis id -> GraphData (main.py:59)
    jobs,               \* the runs handed to the executor, with their locals (main.py:61)
    handler,            \* the request handler that is between two of its statements
    reply               \* the last response sent

pipeline_vars == <<df, order, pc, G, cycles, smurfing_results, shell_results,
                   profiles, scores, suspicious, fraud_rings>>
server_vars == <<analyses, graph_cache, jobs, handler, reply>>
vars == <<pipeline_vars, server_vars>>

-----------------------------------------------------------------------------
(* Bounds of the model *)

\* uploads in a behaviour of the server
MaxAnalyses == 2
\* most rows a table drawn from RowPool holds
MaxRows == 8
\* a set of at most this many accounts is iterated in every order; a larger
\* one in ascending and in descending id order
MaxPermAccounts == 3
\* most hops of a chain table
MaxChain == 7
\* most rows of a fan table
MaxFan == 12
\* accounts of the longest ring of the ring tables, one more than max_length
MaxRing == 6
\* _MAX_PATHS (shell_detector.py:19) is 2_000 in the source; the model scales
\* the cap down so that the bounded tables reach it
MAX_PATHS == 2

-----------------------------------------------------------------------------
(* Program constants *)

max_intermediate_txns == 3
min_chain_length == 3
max_chain_length == 6
PATHS_PER_PAIR == 200
max_length == 5
MAX_CYCLES == 5000
fan_threshold == 10
\* 72 hours, in minutes
WINDOW == 4320
\* ThreadPoolExecutor(max_workers=4), main.py:61
max_workers == 4

-----------------------------------------------------------------------------
(* Arithmetic and sequence helpers *)

\* a timestamp cell that does not parse as an instant, and an amount cell
\* that is not a number, as pd.read_csv hands them on: text. The timestamps
\* of a table are compared as text until a stage parses them, and the text
\* taken here orders before every instant of the tables
NaT == -1
NonNumeric == -1

Min2(a, b) == IF a <= b THEN a ELSE b
Max2(a, b) == IF a >= b THEN a ELSE b

SeqToSet(s) == {s[i] : i \in DOMAIN s}

RECURSIVE SumSeq(_)
SumSeq(s) == IF s = <<>> THEN 0 ELSE Head(s) + SumSeq(Tail(s))

MinOf(S) == CHOOSE x \in S : \A y \in S : x <= y
MaxOf(S) == CHOOSE x \in S : \A y \in S : x >= y

RECURSIVE Flatten(_)
Flatten(ss) == IF ss = <<>> THEN <<>> ELSE Head(ss) \o Flatten(Tail(ss))

\* the elements of a finite set of numbers, ascending
RECURSIVE Ascending(_)
Ascending(S) == IF S = {} THEN <<>> ELSE <<MinOf(S)>> \o Ascending(S \ {MinOf(S)})

Reverse(s) == [i \in 1..Len(s) |-> s[Len(s) + 1 - i]]

\* every arrangement of the finite set S in a sequence
Arrangements(S) ==
    {p \in [1..Cardinality(S) -> S] : \A i, j \in DOMAIN p : i # j => p[i] # p[j]}

\* position of x in the sequence s (x occurs in s)
IndexOf(s, x) == CHOOSE i \in DOMAIN s : s[i] = x

\* n / d rounded to the nearest integer, ties to even (n >= 0, d > 0): the
\* value Python's round() gives for a tie that is exact in binary
RoundDiv(n, d) ==
    LET q == n \div d
        r == n % d
    IN  IF 2 * r < d THEN q
        ELSE IF 2 * r > d THEN q + 1
        ELSE IF q % 2 = 0 THEN q ELSE q + 1

-----------------------------------------------------------------------------
(* graph_builder.py *)

\* ids whose text holds one of the business patterns of _looks_like_business
BusinessNamed == {}

_looks_like_business(acct) == acct \in BusinessNamed

all_accounts(d) ==
    {d[i].sender : i \in DOMAIN d} \cup {d[i].receiver : i \in DOMAIN d}

Amounts(rows) == [i \in DOMAIN rows |-> rows[i].amount]
Stamps(rows) == {rows[i].timestamp : i \in DOMAIN rows}

\* the aggregates build_graph stores on the node of acct: the groupby sums
\* and counts run over every row of the table
node_attrs(d, acct) ==
    LET inc == SelectSeq(d, LAMBDA r : r.receiver = acct)
        out == SelectSeq(d, LAMBDA r : r.sender = acct)
        ic  == Len(inc)
        oc  == Len(out)
        seen == Stamps(inc) \cup Stamps(out)
    IN  [account_type      |-> IF ic + oc > 50 \/ _looks_like_business(acct)
                               THEN "business" ELSE "individual",
         total_inflow      |-> SumSeq(Amounts(inc)),
         total_outflow     |-> SumSeq(Amounts(out)),
         transaction_count |-> ic + oc,
         first_seen        |-> MinOf(seen),
         last_seen         |-> MaxOf(seen)]

\* a non-numeric cell makes the amount column text: the group sums are
\* concatenated text and float(...) of the sum of an account of such a row,
\* or of the cell itself, raises ValueError
build_graph_raises(d) == \E i \in DOMAIN d : d[i].amount = NonNumeric

\* the rows build_graph turns into edges, in row order
graph_edges(d) == SelectSeq(d, LAMBDA r : r.sender # r.receiver)

\* nodes are added in the iteration order ord of the set all_accounts, then
\* one edge per row that is not a self-loop
build_graph(d, ord) ==
    [nodes |-> ord,
     attrs |-> [a \in all_accounts(d) |-> node_attrs(d, a)],
     edges |-> graph_edges(d)]

\* successors of u in first-insertion order (the adjacency of G and of
\* nx.DiGraph(G)), and the neighbour sets
RECURSIVE Dedup(_)
Dedup(s) ==
    IF s = <<>> THEN <<>>
    ELSE LET init == Dedup(SubSeq(s, 1, Len(s) - 1))
             x    == s[Len(s)]
         IN  IF x \in SeqToSet(init) THEN init ELSE Append(init, x)

successors(g, u) ==
    Dedup([i \in 1..Len(SelectSeq(g.edges, LAMBDA e : e.sender = u)) |->
              SelectSeq(g.edges, LAMBDA e : e.sender = u)[i].receiver])
succ_set(g, u) == {g.edges[i].receiver : i \in {j \in DOMAIN g.edges : g.edges[j].sender = u}}
pred_set(g, u) == {g.edges[i].sender : i \in {j \in DOMAIN g.edges : g.edges[j].receiver = u}}
out_degree(g, u) == Cardinality(succ_set(g, u))
in_degree(g, u) == Cardinality(pred_set(g, u))

-----------------------------------------------------------------------------
(* detectors/cycle_detector.py *)

TakeFirst(s, n) == SubSeq(s, 1, Min2(Len(s), n))

\* the simple cycles through path[1] that extend path inside allowed, at most
\* bound nodes long
RECURSIVE cycle_search(_, _, _, _)
cycle_search(g, path, allowed, bound) ==
    LET nxt == successors(g, path[Len(path)])
        step(v) ==
            IF v = path[1] THEN <<path>>
            ELSE IF v \in allowed /\ v \notin SeqToSet(path) /\ Len(path) < bound
                 THEN cycle_search(g, Append(path, v), allowed, bound)
                 ELSE <<>>
    IN  Flatten([i \in DOMAIN nxt |-> step(nxt[i])])

\* the search restarted from every node with no node set aside, so that a
\* cycle is listed once for each node it can start from
simple_cycles_rotations(g, bound) ==
    Flatten([i \in DOMAIN g.nodes |->
        cycle_search(g, <<g.nodes[i]>>, SeqToSet(g.nodes), bound)])

\* nx.simple_cycles(simple_G, length_bound): every simple cycle of at most
\* bound nodes, once. simple_G takes its nodes in the order of G and its
\* edges from a set, and networkx leaves the order of the cycles and the
\* node each starts from to its search; here each cycle starts from its
\* first node in node order and the cycles are listed by that node
simple_cycles(g, bound) ==
    Flatten([i \in DOMAIN g.nodes |->
        cycle_search(g, <<g.nodes[i]>>,
                     {g.nodes[j] : j \in {k \in DOMAIN g.nodes : k > i}}, bound)])

\* pd.to_numeric(errors="coerce").fillna(0)
to_numeric(amount) == IF amount = NonNumeric THEN 0 ELSE amount

\* the copy of the table detect_cycles works on: amounts coerced, rows whose
\* timestamp does not parse dropped
coerced(d) ==
    SelectSeq([i \in DOMAIN d |-> [d[i] EXCEPT !.amount = to_numeric(d[i].amount)]],
              LAMBDA r : r.timestamp # NaT)

\* edge_data[(u, v)]: the rows of the copy from u to v, in row order
edge_data(d, u, v) == SelectSeq(coerced(d), LAMBDA r : r.sender = u /\ r.receiver = v)

\* the transactions of every directed pair of the cycle, closing pair included
edges_in_cycle(d, cycle_nodes) ==
    [i \in DOMAIN cycle_nodes |->
        edge_data(d, cycle_nodes[i], cycle_nodes[(i % Len(cycle_nodes)) + 1])]

cycle_span(d, cycle_nodes) ==
    LET stamps == Stamps(Flatten(edges_in_cycle(d, cycle_nodes)))
    IN  MaxOf(stamps) - MinOf(stamps)

\* the span test left out
coherent_any(span) == TRUE

\* the temporal coherence check
coherent(span) == span <= WINDOW

\* a cycle the loop of detect_cycles appends
cycle_accepted(d, cycle_nodes) ==
    /\ ~(Len(cycle_nodes) < 3)
    /\ \A i \in DOMAIN cycle_nodes : Len(edges_in_cycle(d, cycle_nodes)[i]) # 0
    /\ coherent(cycle_span(d, cycle_nodes))

CycleResult(d, cycle_nodes, ring_counter) ==
    [ring_id         |-> <<"RING", ring_counter>>,
     nodes           |-> cycle_nodes,
     length          |-> Len(cycle_nodes),
     total_amount    |-> SumSeq(Amounts(Flatten(edges_in_cycle(d, cycle_nodes)))),
     time_span_hours |-> RoundDiv(cycle_span(d, cycle_nodes) * 100, 60),
     edge_count      |-> Len(edges_in_cycle(d, cycle_nodes)),
     pattern_type    |-> "cycle"]

\* the accepted cycles in enumeration order, numbered from 1; the loop leaves
\* once _MAX_CYCLES are held
detect_cycles(g, d) ==
    LET found == SelectSeq(simple_cycles(g, max_length),
                           LAMBDA c : cycle_accepted(d, c))
        kept  == TakeFirst(found, MAX_CYCLES)
    IN  [k \in DOMAIN kept |-> CycleResult(d, kept[k], k)]

-----------------------------------------------------------------------------
(* detectors/detectors/smurfing_detector.py *)

\* df.sort_values("timestamp"): ascending, rows of equal timestamp in row order
RECURSIVE sort_values(_)
sort_values(d) ==
    IF d = <<>> THEN <<>>
    ELSE LET init == sort_values(SubSeq(d, 1, Len(d) - 1))
             x    == d[Len(d)]
             k    == Cardinality({i \in DOMAIN init : init[i].timestamp <= x.timestamp})
         IN  SubSeq(init, 1, k) \o <<x>> \o SubSeq(init, k + 1, Len(init))

\* the window never narrowed
shrink_none(grp, left, right) == left

\* the while loop that moves left until the window fits
RECURSIVE shrink(_, _, _)
shrink(grp, left, right) ==
    IF left < right /\ grp[right].timestamp - grp[left].timestamp > WINDOW
    THEN shrink(grp, left + 1, right)
    ELSE left

NoBest == [unique |-> 0, left |-> 0, right |-> 0, total |-> 0]

\* the loop keeping the last window with the most counterparties
RECURSIVE fan_scan_last(_, _, _, _, _)
fan_scan_last(grp, counter_col, right, left, best) ==
    IF right > Len(grp) THEN best
    ELSE LET l      == shrink(grp, left, right)
             unique == Cardinality({grp[i][counter_col] : i \in l..right})
             total  == SumSeq(Amounts(SubSeq(grp, l, right)))
         IN  fan_scan_last(grp, counter_col, right + 1, l,
                           IF unique >= best.unique
                           THEN [unique |-> unique, left |-> l, right |-> right,
                                 total |-> total]
                           ELSE best)

\* the for loop over right: the best window so far, the first of those with
\* the most counterparties
RECURSIVE fan_scan(_, _, _, _, _)
fan_scan(grp, counter_col, right, left, best) ==
    IF right > Len(grp) THEN best
    ELSE LET l      == shrink(grp, left, right)
             unique == Cardinality({grp[i][counter_col] : i \in l..right})
             total  == SumSeq(Amounts(SubSeq(grp, l, right)))
         IN  fan_scan(grp, counter_col, right + 1, l,
                      IF unique > best.unique
                      THEN [unique |-> unique, left |-> l, right |-> right, total |-> total]
                      ELSE best)

SmurfingResult(acct, pattern, grp, best) ==
    LET start == grp[best.left].timestamp
        end   == grp[best.right].timestamp
    IN  [account_id            |-> acct,
         pattern_type          |-> pattern,
         unique_counterparties |-> best.unique,
         total_amount          |-> best.total,
         \* best_total / max(hours_span, 1.0), to two decimals
         velocity_per_hour     |-> RoundDiv(best.total * 60 * 100, Max2(end - start, 60)),
         window_start          |-> start,
         window_end            |-> end,
         ring_id               |-> <<>>]

\* one account of one direction: nothing below threshold rows, else the
\* best window if it reaches the threshold
fan_of_account(d, group_col, counter_col, pattern, threshold, acct) ==
    LET grp  == sort_values(SelectSeq(d, LAMBDA r : r[group_col] = acct))
        best == fan_scan(grp, counter_col, 1, 1, NoBest)
    IN  IF Len(grp) < threshold THEN <<>>
        ELSE IF best.unique >= threshold
             THEN <<SmurfingResult(acct, pattern, grp, best)>>
             ELSE <<>>

\* df.groupby(group_col) visits the accounts in ascending id order
_detect_fan(d, group_col, counter_col, pattern, threshold) ==
    LET keys == Ascending({d[i][group_col] : i \in DOMAIN d})
    IN  Flatten([k \in DOMAIN keys |->
            fan_of_account(d, group_col, counter_col, pattern, threshold, keys[k])])

\* pd.Timestamp(timestamps[i]) raises ValueError on text that is no instant;
\* the window loop reads every timestamp of a group of at least threshold rows
_detect_fan_raises(d, group_col, threshold) ==
    \E acct \in {d[i][group_col] : i \in DOMAIN d} :
        LET grp == SelectSeq(d, LAMBDA r : r[group_col] = acct)
        IN  /\ ~(Len(grp) < threshold)
            /\ \E i \in DOMAIN grp : grp[i].timestamp = NaT

detect_smurfing_raises(d) ==
    \/ _detect_fan_raises(d, "receiver", fan_threshold)
    \/ _detect_fan_raises(d, "sender", fan_threshold)

detect_smurfing(d) ==
    LET sorted == sort_values(d)
    IN  _detect_fan(sorted, "receiver", "sender", "fan_in", fan_threshold)
        \o _detect_fan(sorted, "sender", "receiver", "fan_out", fan_threshold)

-----------------------------------------------------------------------------
(* detectors/shell_detector.py, the detect_shells main.py imports *)

txn_count(g, n) == g.attrs[n].transaction_count

\* the bound taken one too wide
is_candidate_wide(c) == 0 < c /\ c <= max_intermediate_txns + 1

\* low-activity nodes
is_candidate(c) == 0 < c /\ c <= max_intermediate_txns
shell_candidates(g) == {n \in SeqToSet(g.nodes) : is_candidate(txn_count(g, n))}

\* nx.all_simple_paths(simple_G, source, target, cutoff): depth-first in
\* successor order, a path of at most cutoff edges, never through target
RECURSIVE simple_paths(_, _, _, _)
simple_paths(g, path, target, cutoff) ==
    LET nxt == successors(g, path[Len(path)])
        step(v) ==
            IF v \in SeqToSet(path) THEN <<>>
            ELSE IF v = target THEN <<Append(path, v)>>
            ELSE IF Len(path) < cutoff
                 THEN simple_paths(g, Append(path, v), target, cutoff)
                 ELSE <<>>
    IN  Flatten([i \in DOMAIN nxt |-> step(nxt[i])])

all_simple_paths(g, source, target, cutoff) ==
    simple_paths(g, <<source>>, target, cutoff)

intermediates_of(path) == SubSeq(path, 2, Len(path) - 1)

\* the pass-through test of one intermediate node
passes_through(inflow, outflow) ==
    /\ inflow > 0
    /\ outflow > 0
    \* min / max >= 0.5
    /\ ~(2 * Min2(inflow, outflow) < Max2(inflow, outflow))

is_passthrough(g, inter) ==
    \A i \in DOMAIN inter :
        passes_through(g.attrs[inter[i]].total_inflow, g.attrs[inter[i]].total_outflow)

\* every transaction amount of every consecutive pair of the path
_chain_amount(g, path) ==
    SumSeq([i \in 1..(Len(path) - 1) |->
        SumSeq(Amounts(SelectSeq(g.edges,
            LAMBDA e : e.sender = path[i] /\ e.receiver = path[i + 1])))])

ShellResult(g, path, ring_counter) ==
    [ring_id               |-> <<"RING", ring_counter>>,
     pattern_type          |-> "shell",
     chain                 |-> path,
     intermediate_accounts |-> intermediates_of(path),
     total_amount          |-> _chain_amount(g, path),
     shell_depth           |-> Len(intermediates_of(path))]

NoShells == [results |-> <<>>, seen_chains |-> {}, ring_counter |-> 0]

\* the loop over the paths of one (source, target) pair, from path i on:
\* acc holds results, seen_chains and ring_counter; the loop leaves once
\* ring_counter reaches cap
RECURSIVE path_loop(_, _, _, _, _, _)
path_loop(g, paths, i, min_hops, cap, acc) ==
    IF i > Len(paths) THEN acc
    ELSE LET path  == paths[i]
             inter == intermediates_of(path)
         IN  IF \/ Len(path) - 1 < min_hops
                \/ inter = <<>>
                \/ ~(\A k \in DOMAIN inter : inter[k] \in shell_candidates(g))
                \/ path \in acc.seen_chains
             THEN path_loop(g, paths, i + 1, min_hops, cap, acc)
             ELSE IF ~is_passthrough(g, inter)
             THEN path_loop(g, paths, i + 1, min_hops, cap,
                            [acc EXCEPT !.seen_chains = @ \cup {path}])
             ELSE LET hit == [results      |-> Append(acc.results,
                                                ShellResult(g, path, acc.ring_counter + 1)),
                              seen_chains  |-> acc.seen_chains \cup {path},
                              ring_counter |-> acc.ring_counter + 1]
                  IN  IF hit.ring_counter >= cap THEN hit
                      ELSE path_loop(g, paths, i + 1, min_hops, cap, hit)

\* the loop over the sinks of one source, from sink j on (shell_detector.py:81-139):
\* it looks at ring_counter nowhere, so it goes on to the next sink after the
\* path loop has left at the cap
RECURSIVE target_loop(_, _, _, _, _)
target_loop(g, source, sinks, j, acc) ==
    IF j > Len(sinks) THEN acc
    ELSE IF source = sinks[j] THEN target_loop(g, source, sinks, j + 1, acc)
    ELSE target_loop(g, source, sinks, j + 1,
            path_loop(g,
                      TakeFirst(all_simple_paths(g, source, sinks[j], max_chain_length),
                                PATHS_PER_PAIR),
                      1, min_chain_length, MAX_PATHS, acc))

\* the loop over the sources, from source i on: it leaves at the cap
RECURSIVE source_loop(_, _, _, _, _)
source_loop(g, sources, sinks, i, acc) ==
    IF i > Len(sources) THEN acc
    ELSE IF acc.ring_counter >= MAX_PATHS THEN acc
    ELSE source_loop(g, sources, sinks, i + 1,
                     target_loop(g, sources[i], sinks, 1, acc))

is_source(g, n) == in_degree(g, n) = 0 \/ out_degree(g, n) > in_degree(g, n)
is_sink(g, n) == out_degree(g, n) = 0 \/ in_degree(g, n) > out_degree(g, n)

\* sources and sinks by degree, every node when there is none
shell_sources(g) ==
    LET s == SelectSeq(g.nodes, LAMBDA n : is_source(g, n))
    IN  IF s = <<>> THEN g.nodes ELSE s
shell_sinks(g) ==
    LET s == SelectSeq(g.nodes, LAMBDA n : is_sink(g, n))
    IN  IF s = <<>> THEN g.nodes ELSE s

detect_shells(g) ==
    IF shell_candidates(g) = {} THEN <<>>
    ELSE source_loop(g, shell_sources(g), shell_sinks(g), 1, NoShells).results

-----------------------------------------------------------------------------
(* detectors/detectors/shell_detector.py, the variant with limited sources
   and sinks; main.py does not import it *)

OPT_MAX_PATHS == 500
opt_max_chain_length == 5
OPT_PATHS_PER_PAIR == 50
OPT_TOP == 100

\* sorted(xs, key=..., reverse=True): stable, descending by key[x]
RECURSIVE sorted_desc(_, _)
sorted_desc(xs, key) ==
    IF xs = <<>> THEN <<>>
    ELSE LET init == sorted_desc(SubSeq(xs, 1, Len(xs) - 1), key)
             x    == xs[Len(xs)]
             k    == Cardinality({i \in DOMAIN init : key[init[i]] >= key[x]})
         IN  SubSeq(init, 1, k) \o <<x>> \o SubSeq(init, k + 1, Len(init))

\* nodes that send to a candidate and are none themselves; the set is
\* iterated in node order
opt_sources(g) ==
    LET inset(n) == /\ n \notin shell_candidates(g)
                    /\ succ_set(g, n) \cap shell_candidates(g) # {}
    IN  TakeFirst(sorted_desc(SelectSeq(g.nodes, inset),
                              [n \in SeqToSet(g.nodes) |-> out_degree(g, n)]), OPT_TOP)

\* nodes that receive from a candidate and are none themselves
opt_sinks(g) ==
    LET inset(n) == /\ n \notin shell_candidates(g)
                    /\ pred_set(g, n) \cap shell_candidates(g) # {}
    IN  TakeFirst(sorted_desc(SelectSeq(g.nodes, inset),
                              [n \in SeqToSet(g.nodes) |-> in_degree(g, n)]), OPT_TOP)

\* the loop over the sinks, which leaves at the cap
RECURSIVE opt_target_loop(_, _, _, _, _)
opt_target_loop(g, source, sinks, j, acc) ==
    IF j > Len(sinks) THEN acc
    ELSE IF source = sinks[j] THEN opt_target_loop(g, source, sinks, j + 1, acc)
    ELSE IF acc.ring_counter >= OPT_MAX_PATHS THEN acc
    ELSE opt_target_loop(g, source, sinks, j + 1,
            path_loop(g,
                      TakeFirst(all_simple_paths(g, source, sinks[j], opt_max_chain_length),
                                OPT_PATHS_PER_PAIR),
                      1, min_chain_length, OPT_MAX_PATHS, acc))

RECURSIVE opt_source_loop(_, _, _, _, _)
opt_source_loop(g, sources, sinks, i, acc) ==
    IF i > Len(sources) THEN acc
    ELSE IF acc.ring_counter >= OPT_MAX_PATHS THEN acc
    ELSE opt_source_loop(g, sources, sinks, i + 1,
                         opt_target_loop(g, sources[i], sinks, 1, acc))

detect_shells_optimized(g) ==
    IF shell_candidates(g) = {} THEN <<>>
    ELSE IF opt_sources(g) = <<>> \/ opt_sinks(g) = <<>> THEN <<>>
    ELSE opt_source_loop(g, opt_sources(g), opt_sinks(g), 1, NoShells).results

-----------------------------------------------------------------------------
(* filters.py *)

\* whole days of a span of minutes (Timedelta.days)
Days(minutes) == minutes \div 1440

\* the median of a non-empty sequence of numbers, doubled
Median2(xs) ==
    LET srt == [i \in DOMAIN xs |->
                  CHOOSE v \in SeqToSet(xs) :
                     /\ Cardinality({j \in DOMAIN xs : xs[j] < v}) < i
                     /\ Cardinality({j \in DOMAIN xs : xs[j] <= v}) >= i]
        n   == Len(xs)
    IN  IF n % 2 = 1 THEN 2 * srt[(n + 1) \div 2]
        ELSE srt[n \div 2] + srt[n \div 2 + 1]

\* ts.diff().dropna().dt.days of rows in time order
day_diffs(rows) ==
    LET srt == sort_values(rows)
    IN  [i \in 1..(Len(srt) - 1) |-> Days(srt[i + 1].timestamp - srt[i].timestamp)]

monthly(rows) ==
    /\ Len(rows) >= 2
    /\ 50 <= Median2(day_diffs(rows))
    /\ Median2(day_diffs(rows)) <= 70

\* the sender of most rows of inc, the first in row order among the most
\* frequent (value_counts)
dominant_sender(inc) ==
    LET cnt(s) == Cardinality({i \in DOMAIN inc : inc[i].sender = s})
        top    == {s \in {inc[i].sender : i \in DOMAIN inc} :
                      \A t \in {inc[i].sender : i \in DOMAIN inc} : cnt(s) >= cnt(t)}
    IN  inc[MinOf({i \in DOMAIN inc : inc[i].sender \in top})].sender

_is_payroll(inc) ==
    IF Len(inc) < 3 THEN FALSE
    ELSE LET dom == dominant_sender(inc)
             sub == SelectSeq(inc, LAMBDA r : r.sender = dom)
             n   == Len(sub)
             sm  == SumSeq(Amounts(sub))
             sq  == SumSeq([i \in DOMAIN sub |-> sub[i].amount * sub[i].amount])
         IN  \* dominant_ratio >= 0.80
             /\ 5 * n >= 4 * Len(inc)
             /\ n >= 3
             /\ sm # 0
             \* std / mean <= 0.10
             /\ 100 * (n * sq - sm * sm) <= sm * sm
             /\ monthly(sub)

\* amounts are whole dollars: the cents of every amount are 0.0
_is_round_number(amount) == TRUE

_is_merchant(inc, out) ==
    IF Len(inc) < 20 THEN FALSE
    ELSE \* avg_out > avg_in, avg_out = 0 without outflows
         /\ out # <<>>
         /\ SumSeq(Amounts(out)) * Len(inc) > SumSeq(Amounts(inc)) * Len(out)
         /\ Len(inc) >= 5 * Max2(Len(out), 1)
         /\ 10 * Cardinality({i \in DOMAIN inc : _is_round_number(inc[i].amount)})
               > 3 * Len(inc)

_is_salary(inc, out) ==
    IF Len(inc) < 2 THEN FALSE
    ELSE LET max_amt == MaxOf(SeqToSet(Amounts(inc)))
             large   == SelectSeq(inc, LAMBDA r : 10 * r.amount > 7 * max_amt)
         IN  /\ Len(large) >= 2
             /\ monthly(large)
             /\ Len(out) >= 3

\* ids whose text matches the business-name pattern of _is_established_business
BusinessPattern == {}

_is_established_business(inc, out, acct_id) ==
    LET all_txns == inc \o out
    IN  IF Len(all_txns) < 20 THEN FALSE
        ELSE /\ Days(MaxOf(Stamps(all_txns)) - MinOf(Stamps(all_txns))) >= 180
             /\ Cardinality({inc[i].sender : i \in DOMAIN inc}
                            \cup {out[i].receiver : i \in DOMAIN out}) >= 10
             /\ (acct_id \in BusinessPattern \/ Len(all_txns) > 100)

\* pd.to_datetime(rows["timestamp"]) raises ValueError if a timestamp of the
\* rows does not parse
to_datetime_raises(rows) == \E i \in DOMAIN rows : rows[i].timestamp = NaT

\* whether a filter gets as far as parsing timestamps, and fails there
_is_payroll_raises(inc) ==
    /\ ~(Len(inc) < 3)
    /\ LET dom == dominant_sender(inc)
           sub == SelectSeq(inc, LAMBDA r : r.sender = dom)
           n   == Len(sub)
           sm  == SumSeq(Amounts(sub))
           sq  == SumSeq([i \in DOMAIN sub |-> sub[i].amount * sub[i].amount])
       IN  /\ 5 * n >= 4 * Len(inc)
           /\ n >= 3
           /\ sm # 0
           /\ 100 * (n * sq - sm * sm) <= sm * sm
           /\ to_datetime_raises(sub)

_is_salary_raises(inc) ==
    /\ ~(Len(inc) < 2)
    /\ LET max_amt == MaxOf(SeqToSet(Amounts(inc)))
           large   == SelectSeq(inc, LAMBDA r : 10 * r.amount > 7 * max_amt)
       IN  ~(Len(large) < 2) /\ to_datetime_raises(large)

_is_established_business_raises(inc, out) ==
    ~(Len(inc \o out) < 20) /\ to_datetime_raises(inc \o out)

\* apply_filters raises if a filter of some account does
apply_filters_raises(g, d) ==
    \E k \in DOMAIN g.nodes :
        LET inc == SelectSeq(d, LAMBDA r : r.receiver = g.nodes[k])
            out == SelectSeq(d, LAMBDA r : r.sender = g.nodes[k])
        IN  \/ _is_payroll_raises(inc)
            \/ _is_salary_raises(inc)
            \/ _is_established_business_raises(inc, out)

\* AccountProfile(first_seen=..., last_seen=...) validates the two as
\* datetimes: build_account_profiles raises for a node whose earliest or
\* latest timestamp, as text, is one that does not parse
build_account_profiles_raises(g) ==
    \E k \in DOMAIN g.nodes :
        g.attrs[g.nodes[k]].first_seen = NaT \/ g.attrs[g.nodes[k]].last_seen = NaT

\* build_account_profiles (graph_builder.py:137-150), then apply_filters
AccountProfile(g, d, acct) ==
    LET inc == SelectSeq(d, LAMBDA r : r.receiver = acct)
        out == SelectSeq(d, LAMBDA r : r.sender = acct)
    IN  [account_id              |-> acct,
         is_payroll              |-> _is_payroll(inc),
         is_merchant             |-> _is_merchant(inc, out),
         is_salary               |-> _is_salary(inc, out),
         is_established_business |-> _is_established_business(inc, out, acct),
         account_type            |-> g.attrs[acct].account_type,
         total_inflow            |-> g.attrs[acct].total_inflow,
         total_outflow           |-> g.attrs[acct].total_outflow,
         transaction_count       |-> g.attrs[acct].transaction_count]

\* the profile map in its insertion order, the node order of the graph
apply_filters(g, d) == [i \in DOMAIN g.nodes |-> AccountProfile(g, d, g.nodes[i])]

-----------------------------------------------------------------------------
(* scoring.py *)

\* a reduction that is skipped when it would take the score below 0
reduce_skip(score, penalty) == IF score >= penalty THEN score - penalty ELSE score

\* one false-positive reduction, with its floor
reduce(score, penalty) == Max2(0, score - penalty)

\* the cap left out
clamp_none(score) == score

\* min(100.0, round(score, 1)) of a whole number of points
clamp(score) == Min2(100, score)

\* the threshold with a digit too many
is_high_value_typo(total_amount) == total_amount > 100000

is_high_value(total_amount) == total_amount > 10000
\* structuring at the fan threshold instead of above 20
is_structuring_low(unique_counterparties) == unique_counterparties > 10

is_structuring(unique_counterparties) == unique_counterparties > 20
\* velocity_per_hour > 5_000, the velocity in hundredths
is_high_velocity(velocity_per_hour) == velocity_per_hour > 500000

cycle_points(acct_id, cyc) ==
    IF acct_id \in SeqToSet(cyc.nodes)
    THEN 20 * (6 - cyc.length) + (IF is_high_value(cyc.total_amount) THEN 10 ELSE 0)
    ELSE 0

smurf_points(acct_id, sm) ==
    IF sm.account_id = acct_id
    THEN 15 + (IF is_structuring(sm.unique_counterparties) THEN 5 ELSE 0)
            + (IF is_high_velocity(sm.velocity_per_hour) THEN 10 ELSE 0)
    ELSE 0

\* every account of the chain scored, the two ends included
shell_points_chain(acct_id, sh) ==
    IF acct_id \in SeqToSet(sh.chain) THEN 25 ELSE 0

shell_points(acct_id, sh) ==
    IF acct_id \in SeqToSet(sh.intermediate_accounts) THEN 25 ELSE 0

\* the score before the reductions
raw_score(acct_id, cycs, smurfs, shells) ==
    SumSeq([i \in DOMAIN cycs |-> cycle_points(acct_id, cycs[i])])
    + SumSeq([i \in DOMAIN smurfs |-> smurf_points(acct_id, smurfs[i])])
    + SumSeq([i \in DOMAIN shells |-> shell_points(acct_id, shells[i])])

\* the merchant reduction taken from the score before the payroll reduction
reduced_stale(score, profile) ==
    LET s1 == IF profile.is_payroll THEN reduce(score, 30) ELSE score
        s2 == IF profile.is_merchant THEN reduce(score, 25) ELSE s1
        s3 == IF profile.is_salary THEN reduce(s2, 20) ELSE s2
    IN  IF profile.is_established_business THEN reduce(s3, 35) ELSE s3

\* the four reductions, in the order of the code
reduced(score, profile) ==
    LET s1 == IF profile.is_payroll THEN reduce(score, 30) ELSE score
        s2 == IF profile.is_merchant THEN reduce(s1, 25) ELSE s1
        s3 == IF profile.is_salary THEN reduce(s2, 20) ELSE s2
    IN  IF profile.is_established_business THEN reduce(s3, 35) ELSE s3

_score_account(acct_id, profile, cycs, smurfs, shells) ==
    clamp(reduced(raw_score(acct_id, cycs, smurfs, shells), profile))

\* whether calculate_scores keeps the score
retained(score) == score > 0

\* profs is the profile map in its iteration order; the result is the score
\* map in its insertion order
calculate_scores(profs, cycs, smurfs, shells) ==
    LET all == [i \in DOMAIN profs |->
                  [account_id |-> profs[i].account_id,
                   score      |-> _score_account(profs[i].account_id, profs[i],
                                                 cycs, smurfs, shells)]]
    IN  SelectSeq(all, LAMBDA e : retained(e.score))

\* scores.get(acct, 0)
score_get(scs, acct) ==
    IF \E i \in DOMAIN scs : scs[i].account_id = acct
    THEN scs[CHOOSE i \in DOMAIN scs : scs[i].account_id = acct].score
    ELSE 0

\* the counter never advanced
assign_smurf_rings_stuck(smurfs, counter) ==
    [i \in DOMAIN smurfs |->
        IF smurfs[i].ring_id = <<>>
        THEN [smurfs[i] EXCEPT !.ring_id = <<"RING", counter + 1>>]
        ELSE smurfs[i]]

\* step 5 left out: the smurfs keep the ring id the detector gave them
assign_smurf_rings_none(smurfs, counter) == smurfs

\* main.py:103-108: smurfs without a ring id are numbered after the cycles
\* and the shells
RECURSIVE assign_smurf_rings(_, _)
assign_smurf_rings(smurfs, counter) ==
    IF smurfs = <<>> THEN <<>>
    ELSE IF Head(smurfs).ring_id = <<>>
         THEN <<[Head(smurfs) EXCEPT !.ring_id = <<"RING", counter + 1>>]>>
              \o assign_smurf_rings(Tail(smurfs), counter + 1)
         ELSE <<Head(smurfs)>> \o assign_smurf_rings(Tail(smurfs), counter)

Tag(name, n) == [tag |-> name, n |-> n]

\* pattern_map[acct]: the tags of the account, as a set
pattern_set(acct, cycs, smurfs, shells) ==
    {Tag("cycle_length", cycs[i].length) :
        i \in {j \in DOMAIN cycs : acct \in SeqToSet(cycs[j].nodes)}}
    \cup {Tag("high_value_cycle", 0) :
        i \in {j \in DOMAIN cycs : /\ acct \in SeqToSet(cycs[j].nodes)
                                    /\ is_high_value(cycs[j].total_amount)}}
    \cup {Tag(smurfs[i].pattern_type, 0) :
        i \in {j \in DOMAIN smurfs : smurfs[j].account_id = acct}}
    \cup {Tag("high_velocity", 0) :
        i \in {j \in DOMAIN smurfs : /\ smurfs[j].account_id = acct
                                      /\ is_high_velocity(smurfs[j].velocity_per_hour)}}
    \cup {Tag("structuring", 0) :
        i \in {j \in DOMAIN smurfs : /\ smurfs[j].account_id = acct
                                      /\ is_structuring(smurfs[j].unique_counterparties)}}
    \cup {Tag("shell_depth", shells[i].shell_depth) :
        i \in {j \in DOMAIN shells : acct \in SeqToSet(shells[j].chain)}}

\* ring_map[acct]: the ring ids of the account in insertion order: cycles,
\* then smurfs that have a ring id, then shells
ring_list(acct, cycs, smurfs, shells) ==
    LET c  == SelectSeq(cycs, LAMBDA x : acct \in SeqToSet(x.nodes))
        m  == SelectSeq(smurfs, LAMBDA x : x.account_id = acct /\ x.ring_id # <<>>)
        sh == SelectSeq(shells, LAMBDA x : acct \in SeqToSet(x.chain))
    IN  [i \in DOMAIN c |-> c[i].ring_id] \o [i \in DOMAIN m |-> m[i].ring_id]
        \o [i \in DOMAIN sh |-> sh[i].ring_id]

has_profile(profs, acct) == \E i \in DOMAIN profs : profs[i].account_id = acct
profile_get(profs, acct) == profs[CHOOSE i \in DOMAIN profs : profs[i].account_id = acct]

SuspiciousAccount(acct, score, cycs, smurfs, shells, profs, g) ==
    LET rings == ring_list(acct, cycs, smurfs, shells)
        known == has_profile(profs, acct)
    IN  [account_id        |-> acct,
         suspicion_score   |-> score,
         detected_patterns |-> pattern_set(acct, cycs, smurfs, shells),
         ring_id           |-> IF rings # <<>> THEN rings[1] ELSE <<>>,
         account_type      |-> IF known THEN profile_get(profs, acct).account_type
                               ELSE "individual",
         total_inflow      |-> IF known THEN profile_get(profs, acct).total_inflow ELSE 0,
         total_outflow     |-> IF known THEN profile_get(profs, acct).total_outflow ELSE 0,
         transaction_count |-> IF known THEN profile_get(profs, acct).transaction_count
                               ELSE 0,
         connected_accounts |-> IF g.nodes # <<>> /\ acct \in SeqToSet(g.nodes)
                                THEN succ_set(g, acct) \cup pred_set(g, acct)
                                ELSE {},
         ring_ids          |-> SeqToSet(rings)]

\* accounts.sort(key=lambda a: a.suspicion_score, reverse=True): stable, so
\* accounts of equal score keep the order they were appended in
RECURSIVE sort_accounts(_)
sort_accounts(accounts) ==
    IF accounts = <<>> THEN <<>>
    ELSE LET init == sort_accounts(SubSeq(accounts, 1, Len(accounts) - 1))
             x    == accounts[Len(accounts)]
             k    == Cardinality({i \in DOMAIN init :
                                     init[i].suspicion_score >= x.suspicion_score})
         IN  SubSeq(init, 1, k) \o <<x>> \o SubSeq(init, k + 1, Len(init))

build_suspicious_accounts(scs, cycs, smurfs, shells, profs, g) ==
    LET kept == SelectSeq(scs, LAMBDA e : ~(e.score <= 0))
    IN  sort_accounts([i \in DOMAIN kept |->
            SuspiciousAccount(kept[i].account_id, kept[i].score,
                              cycs, smurfs, shells, profs, g)])

\* only the members that have a score
member_scores_present(scs, members) ==
    LET have == SelectSeq(members, LAMBDA a : \E i \in DOMAIN scs : scs[i].account_id = a)
    IN  [i \in DOMAIN have |-> score_get(scs, have[i])]

member_scores(scs, members) == [i \in DOMAIN members |-> score_get(scs, members[i])]

\* round(sum / len, 1) in tenths, 0 without members
mean_score(ms) == IF ms = <<>> THEN 0 ELSE RoundDiv(10 * SumSeq(ms), Len(ms))

\* the boost given from 70 on
cycle_risk_loose(ms) ==
    IF ms # <<>> /\ \A i \in DOMAIN ms : ms[i] >= 70
    THEN Min2(1000, RoundDiv(12 * SumSeq(ms), Len(ms)))
    ELSE mean_score(ms)

\* the boost of a cycle whose members are all above 70: min(100, avg * 1.2)
cycle_risk(ms) ==
    IF ms # <<>> /\ \A i \in DOMAIN ms : ms[i] > 70
    THEN Min2(1000, RoundDiv(12 * SumSeq(ms), Len(ms)))
    ELSE mean_score(ms)

FraudRing(rid, members, pattern, risk) ==
    [ring_id |-> rid, member_accounts |-> members, pattern_type |-> pattern,
     risk_score |-> risk]

\* the ring id a smurf is grouped under
smurf_group_id(sm) == IF sm.ring_id # <<>> THEN sm.ring_id ELSE <<"SMURF", sm.account_id>>

\* smurf_groups: one ring per group id, in order of first occurrence, the
\* members in smurf order
smurf_rings(scs, smurfs) ==
    LET rids == Dedup([i \in DOMAIN smurfs |-> smurf_group_id(smurfs[i])])
        members(rid) ==
            LET of == SelectSeq(smurfs, LAMBDA x : smurf_group_id(x) = rid)
            IN  [i \in DOMAIN of |-> of[i].account_id]
    IN  [k \in DOMAIN rids |->
            FraudRing(rids[k], members(rids[k]), "smurfing",
                      mean_score(member_scores(scs, members(rids[k]))))]

\* rings.sort(key=lambda r: r.risk_score, reverse=True): stable
RECURSIVE sort_rings(_)
sort_rings(rings) ==
    IF rings = <<>> THEN <<>>
    ELSE LET init == sort_rings(SubSeq(rings, 1, Len(rings) - 1))
             x    == rings[Len(rings)]
             k    == Cardinality({i \in DOMAIN init : init[i].risk_score >= x.risk_score})
         IN  SubSeq(init, 1, k) \o <<x>> \o SubSeq(init, k + 1, Len(init))

build_fraud_rings(scs, cycs, smurfs, shells) ==
    sort_rings(
        [i \in DOMAIN cycs |->
            FraudRing(cycs[i].ring_id, cycs[i].nodes, "cycle",
                      cycle_risk(member_scores(scs, cycs[i].nodes)))]
        \o smurf_rings(scs, smurfs)
        \o [i \in DOMAIN shells |->
            FraudRing(shells[i].ring_id, shells[i].chain, "shell",
                      mean_score(member_scores(scs, shells[i].chain)))])

-----------------------------------------------------------------------------
(* The tables the model draws *)

Row(s, r, a, t) == [sender |-> s, receiver |-> r, amount |-> a, timestamp |-> t]

\* candidate rows over six accounts: a triangle 1 -> 2 -> 3 -> 1, a closing
\* row exactly 72 h and one 80 h after the first, a chain 1 -> 4 -> 5 -> 6
\* with branches into the triangle, a parallel row, a self-loop, a row
\* closing a longer cycle
RowPool ==
    << Row(1, 2, 5000, 0),
       Row(2, 3, 5000, 60),
       Row(3, 1, 5000, 120),
       Row(3, 1, 200, 4800),
       Row(1, 4, 100, 0),
       Row(4, 5, 100, 60),
       Row(5, 6, 100, 120),
       Row(5, 3, 100, 180),
       Row(4, 2, 100, 240),
       Row(4, 5, 300, 300),
       Row(2, 2, 50, 0),
       Row(6, 1, 100, 4320) >>

\* the rows of RowPool with index in S, in pool order
Pick(S) == [i \in 1..Cardinality(S) |-> RowPool[Ascending(S)[i]]]

PoolTables ==
    {Pick(S) : S \in {T \in SUBSET (1..Len(RowPool)) : Cardinality(T) <= MaxRows}}

\* a chain 1 -> 2 -> ... -> hops + 1 of $100 rows an hour apart; row weak
\* (if any) carries weak_amount instead; with heavy, three more rows leave
\* the first account and three more reach the last, so that neither end is
\* a low-activity node
ChainTable(hops, weak, weak_amount, heavy) ==
    [i \in 1..hops |-> Row(i, i + 1, IF i = weak THEN weak_amount ELSE 100, 60 * i)]
    \o (IF heavy
        THEN [k \in 1..3 |-> Row(1, hops + 1 + k, 100, 0)]
             \o [k \in 1..3 |-> Row(hops + 4 + k, hops + 1, 100, 0)]
        ELSE <<>>)

ChainTables ==
    {ChainTable(hops, weak, amt, heavy) :
        hops \in min_chain_length..MaxChain, weak \in 0..MaxChain,
        amt \in {40, 50}, heavy \in BOOLEAN}

\* account 1 and n counterparties 2, 3, ...: n rows of amt dollars, spacing
\* minutes apart, paid by account 1 (dir "out") or to it (dir "in"); row
\* dup (if any) repeats the counterparty of the first row
FanTable(n, spacing, dup, dir, amt) ==
    [i \in 1..n |->
        LET cp == IF i = dup THEN 2 ELSE i + 1
            t  == spacing * (i - 1)
        IN  IF dir = "out" THEN Row(1, cp, amt, t) ELSE Row(cp, 1, amt, t)]

FanTables ==
    {FanTable(n, spacing, dup, dir, amt) :
        n \in (fan_threshold - 1)..MaxFan, spacing \in {10, 480},
        dup \in {0, 2, fan_threshold + 1}, dir \in {"out", "in"}, amt \in {100, 900}}

\* the orders in which the model iterates a set of account ids
Orders(S) ==
    IF Cardinality(S) <= MaxPermAccounts
    THEN Arrangements(S)
    ELSE {Ascending(S), Reverse(Ascending(S))}

-----------------------------------------------------------------------------
(* _run_analysis, stage by stage *)

\* the registry and the executor of main.py, before the first request
\* Optional[...] fields: None, or the value
None == <<>>
Some(x) == <<x>>

Idle == [endpoint |-> "none", id |-> 0, df |-> <<>>]

Reply(endpoint, id, code, body) ==
    [endpoint |-> endpoint, id |-> id, code |-> code, body |-> body]

ServerStart ==
    /\ analyses = <<>>
    /\ graph_cache = <<>>
    /\ jobs = <<>>
    /\ handler = Idle
    /\ reply = Reply("none", 0, 0, None)

NoGraph == [nodes |-> <<>>, attrs |-> <<>>, edges |-> <<>>]

Start(tables) ==
    /\ df \in tables
    /\ order \in Orders(all_accounts(df))
    /\ pc = "build_graph"
    /\ G = NoGraph
    /\ cycles = <<>>
    /\ smurfing_results = <<>>
    /\ shell_results = <<>>
    /\ profiles = <<>>
    /\ scores = <<>>
    /\ suspicious = <<>>
    /\ fraud_rings = <<>>
    /\ ServerStart

Init == Start(PoolTables \cup ChainTables)

\* main.py:89
BuildGraph ==
    /\ UNCHANGED server_vars
    /\ pc = "build_graph"
    /\ ~build_graph_raises(df)
    /\ G' = build_graph(df, order)
    /\ pc' = "detect_cycles"
    /\ UNCHANGED <<df, order, cycles, smurfing_results, shell_results,
                   profiles, scores, suspicious, fraud_rings>>

\* main.py:92
DetectCycles ==
    /\ UNCHANGED server_vars
    /\ pc = "detect_cycles"
    /\ cycles' = detect_cycles(G, df)
    /\ pc' = "detect_smurfing"
    /\ UNCHANGED <<df, order, G, smurfing_results, shell_results,
                   profiles, scores, suspicious, fraud_rings>>

\* main.py:93
DetectSmurfing ==
    /\ UNCHANGED server_vars
    /\ pc = "detect_smurfing"
    /\ ~detect_smurfing_raises(df)
    /\ smurfing_results' = detect_smurfing(df)
    /\ pc' = "detect_shells"
    /\ UNCHANGED <<df, order, G, cycles, shell_results,
                   profiles, scores, suspicious, fraud_rings>>

\* main.py:94
DetectShells ==
    /\ UNCHANGED server_vars
    /\ pc = "detect_shells"
    /\ shell_results' = detect_shells(G)
    /\ pc' = "profiles"
    /\ UNCHANGED <<df, order, G, cycles, smurfing_results,
                   profiles, scores, suspicious, fraud_rings>>

\* main.py:97-98
BuildProfiles ==
    /\ UNCHANGED server_vars
    /\ pc = "profiles"
    /\ ~build_account_profiles_raises(G)
    /\ ~apply_filters_raises(G, df)
    /\ profiles' = apply_filters(G, df)
    /\ pc' = "score"
    /\ UNCHANGED <<df, order, G, cycles, smurfing_results, shell_results,
                   scores, suspicious, fraud_rings>>

\* main.py:101
CalculateScores ==
    /\ UNCHANGED server_vars
    /\ pc = "score"
    /\ scores' = calculate_scores(profiles, cycles, smurfing_results, shell_results)
    /\ pc' = "assign_rings"
    /\ UNCHANGED <<df, order, G, cycles, smurfing_results, shell_results,
                   profiles, suspicious, fraud_rings>>

\* main.py:104-108
AssignSmurfRings ==
    /\ UNCHANGED server_vars
    /\ pc = "assign_rings"
    /\ smurfing_results' =
          assign_smurf_rings(smurfing_results, Len(cycles) + Len(shell_results))
    /\ pc' = "build_suspicious"
    /\ UNCHANGED <<df, order, G, cycles, shell_results,
                   profiles, scores, suspicious, fraud_rings>>

\* main.py:111-114
BuildSuspicious ==
    /\ UNCHANGED server_vars
    /\ pc = "build_suspicious"
    /\ suspicious' = build_suspicious_accounts(scores, cycles, smurfing_results,
                                               shell_results, profiles, G)
    /\ pc' = "build_fraud_rings"
    /\ UNCHANGED <<df, order, G, cycles, smurfing_results, shell_results,
                   profiles, scores, fraud_rings>>

\* main.py:115
BuildFraudRings ==
    /\ UNCHANGED server_vars
    /\ pc = "build_fraud_rings"
    /\ fraud_rings' = build_fraud_rings(scores, cycles, smurfing_results, shell_results)
    /\ pc' = "done"
    /\ UNCHANGED <<df, order, G, cycles, smurfing_results, shell_results,
                   profiles, scores, suspicious>>

Next ==
    \/ BuildGraph
    \/ DetectCycles
    \/ DetectSmurfing
    \/ DetectShells
    \/ BuildProfiles
    \/ CalculateScores
    \/ AssignSmurfRings
    \/ BuildSuspicious
    \/ BuildFraudRings

Spec == Init /\ [][Next]_vars

\* main.py:151-156: a stage raised and the run ends in the except branch
Raise ==
    /\ UNCHANGED server_vars
    /\ \/ pc = "build_graph" /\ build_graph_raises(df)
       \/ pc = "detect_smurfing" /\ detect_smurfing_raises(df)
       \/ pc = "profiles" /\ (build_account_profiles_raises(G) \/ apply_filters_raises(G, df))
    /\ pc' = "error"
    /\ UNCHANGED <<df, order, G, cycles, smurfing_results, shell_results,
                   profiles, scores, suspicious, fraud_rings>>

\* tables with one cell that does not parse: the timestamp or the amount of
\* one row of a base table
Spoilt(table, i, cell) ==
    [table EXCEPT ![i] = IF cell = "timestamp" THEN [@ EXCEPT !.timestamp = NaT]
                         ELSE [@ EXCEPT !.amount = NonNumeric]]

\* two deposits of $100 to account 1, which pays on three times
DepositTable ==
    <<Row(2, 1, 100, 0), Row(3, 1, 100, 60), Row(1, 4, 50, 120), Row(1, 5, 50, 180),
      Row(1, 6, 50, 240)>>

BaseTables ==
    {ChainTable(hops, 0, 100, FALSE) : hops \in min_chain_length..(min_chain_length + 1)}
    \cup {<<Row(1, 2, 5000, 0), Row(2, 3, 5000, 60), Row(3, 1, 5000, 120)>>,
          DepositTable, FanTable(fan_threshold, 10, 0, "out", 900)}

SpoiltTables ==
    UNION {{Spoilt(t, i, cell) : i \in DOMAIN t, cell \in {"timestamp", "amount"}} :
              t \in BaseTables}

InitSpoilt == Start(BaseTables \cup SpoiltTables)
NextSpoilt == Next \/ Raise
SpecSpoilt == InitSpoilt /\ [][NextSpoilt]_vars

\* the pipeline on the fan tables
InitFan == Start(FanTables)
SpecFan == InitFan /\ [][Next]_vars

\* a ring 1 -> 2 -> ... -> n -> 1 of $100 rows gap minutes apart; every
\* account of chords also pays account 1, at the time of its ring row, which
\* closes a shorter cycle; account late (if any) pays account 1 once more,
\* 100 hours in; with back, account 2 pays account 1, a cycle of two
RingTable(n, chords, late, gap, back) ==
    [i \in 1..n |-> Row(i, (i % n) + 1, 100, gap * (i - 1))]
    \o [k \in 1..Cardinality(chords) |->
           Row(Ascending(chords)[k], 1, 100, gap * (Ascending(chords)[k] - 1))]
    \o (IF late # 0 THEN <<Row(late, 1, 100, 6000)>> ELSE <<>>)
    \o (IF back THEN <<Row(2, 1, 100, 0)>> ELSE <<>>)

RingTablesOf(n) ==
    UNION {{RingTable(n, chords, late, gap, back) :
                late \in {0} \cup chords, gap \in {60, 1080, 1440}, back \in BOOLEAN} :
           chords \in SUBSET (3..(n - 1))}

RingTables == UNION {RingTablesOf(n) : n \in 3..MaxRing}

\* the pipeline on the ring tables
SpecCycle == Start(RingTables) /\ [][Next]_vars

\* the fan tables with one more row, which account 1 pays to itself
LoopTables == {t \o <<Row(1, 1, 50, 0)>> : t \in FanTables}

\* the pipeline on the pool, chain and fan tables and on the fan tables with
\* a self-loop
SpecLoop == Start(PoolTables \cup ChainTables \cup FanTables \cup LoopTables) /\ [][Next]_vars

-----------------------------------------------------------------------------
(* The scoring stage on drawn detections and profiles *)

SubSeqs(pool) ==
    {[i \in 1..Cardinality(S) |-> pool[Ascending(S)[i]]] : S \in SUBSET DOMAIN pool}

\* detector results as the detectors number them, from RING_1 in list order
Numbered(results) ==
    [i \in DOMAIN results |-> [results[i] EXCEPT !.ring_id = <<"RING", i>>]]

CycleIn(nodes, total) ==
    [ring_id |-> <<>>, nodes |-> nodes, length |-> Len(nodes), total_amount |-> total,
     time_span_hours |-> 200, edge_count |-> Len(nodes), pattern_type |-> "cycle"]

CyclePool ==
    << CycleIn(<<1, 2, 3>>, 15000), CycleIn(<<1, 3, 2>>, 300),
       CycleIn(<<1, 2, 4, 3>>, 400), CycleIn(<<1, 2, 3, 4, 5>>, 500) >>

SmurfIn(acct, pattern, unique, total, velocity) ==
    [account_id |-> acct, pattern_type |-> pattern, unique_counterparties |-> unique,
     total_amount |-> total, velocity_per_hour |-> velocity,
     window_start |-> 0, window_end |-> 110, ring_id |-> <<>>]

SmurfPool ==
    << SmurfIn(2, "fan_in", 25, 2500, 136364), SmurfIn(1, "fan_out", 12, 10800, 589091) >>

ShellIn(chain) ==
    [ring_id |-> <<>>, pattern_type |-> "shell", chain |-> chain,
     intermediate_accounts |-> intermediates_of(chain), total_amount |-> 300,
     shell_depth |-> Len(chain) - 2]

ShellPool == << ShellIn(<<4, 1, 2, 5>>), ShellIn(<<5, 2, 3, 4>>) >>

ProfileIn(acct, flags) ==
    [account_id |-> acct,
     is_payroll |-> flags[1], is_merchant |-> flags[2],
     is_salary |-> flags[3], is_established_business |-> flags[4],
     account_type |-> "individual", total_inflow |-> 100, total_outflow |-> 100,
     transaction_count |-> 2]

NoFlags == <<FALSE, FALSE, FALSE, FALSE>>
Flags == [1..4 -> BOOLEAN]

\* five accounts; the flags of account 1 are free, account 2 may be payroll
ProfileInputs ==
    {<<ProfileIn(1, f), ProfileIn(2, <<p, FALSE, FALSE, FALSE>>), ProfileIn(3, NoFlags),
       ProfileIn(4, NoFlags), ProfileIn(5, NoFlags)>> : f \in Flags, p \in BOOLEAN}

InitScore ==
    /\ df = <<>>
    /\ order = <<>>
    /\ pc = "score"
    /\ G = NoGraph
    /\ cycles \in {Numbered(c) : c \in SubSeqs(CyclePool)}
    /\ smurfing_results \in SubSeqs(SmurfPool)
    /\ shell_results \in {Numbered(c) : c \in SubSeqs(ShellPool)}
    /\ profiles \in ProfileInputs
    /\ scores = <<>>
    /\ suspicious = <<>>
    /\ fraud_rings = <<>>
    /\ ServerStart

NextScore ==
    \/ CalculateScores
    \/ AssignSmurfRings
    \/ BuildSuspicious
    \/ BuildFraudRings

SpecScore == InitScore /\ [][NextScore]_vars

-----------------------------------------------------------------------------
(* main.py: the registry, the graph cache, the executor and the endpoints *)

AnalysisStatusResponse(id, status, result, error) ==
    [analysis_id |-> id, status |-> status, result |-> result, error |-> error]

\* main.py:136-140: the patterns of every listed account, and its ring id if
\* it has one
pattern_map(susp) ==
    [a \in {susp[i].account_id : i \in DOMAIN susp} |->
        susp[CHOOSE i \in DOMAIN susp : susp[i].account_id = a].detected_patterns]

ring_map(susp) ==
    [a \in {susp[i].account_id : i \in {j \in DOMAIN susp : susp[j].ring_id # <<>>}} |->
        <<susp[CHOOSE i \in DOMAIN susp : susp[i].account_id = a].ring_id>>]

\* graph_builder.py:155-192: one GraphNode per node, one GraphEdge per
\* directed pair with the sum and the number of its transactions
build_graph_data(g, scs, rmap, pmap) ==
    LET pairs == Flatten([k \in DOMAIN g.nodes |->
                    [j \in DOMAIN successors(g, g.nodes[k]) |->
                        <<g.nodes[k], successors(g, g.nodes[k])[j]>>]])
        rows(p) == SelectSeq(g.edges, LAMBDA e : e.sender = p[1] /\ e.receiver = p[2])
    IN  [nodes |-> [k \in DOMAIN g.nodes |->
                      LET n == g.nodes[k]
                      IN  [id                |-> n,
                           suspicion_score   |-> score_get(scs, n),
                           ring_ids          |-> IF n \in DOMAIN rmap THEN rmap[n] ELSE <<>>,
                           total_inflow      |-> g.attrs[n].total_inflow,
                           total_outflow     |-> g.attrs[n].total_outflow,
                           transaction_count |-> g.attrs[n].transaction_count,
                           detected_patterns |-> IF n \in DOMAIN pmap THEN pmap[n] ELSE {}]],
         edges |-> [k \in DOMAIN pairs |->
                      [source            |-> pairs[k][1],
                       target            |-> pairs[k][2],
                       amount            |-> SumSeq(Amounts(rows(pairs[k]))),
                       transaction_count |-> Len(rows(pairs[k]))]]]

\* whether a stage of the try block raises for the table d, and str(exc)
run_raises(d, ord) ==
    \/ build_graph_raises(d)
    \/ detect_smurfing_raises(d)
    \/ build_account_profiles_raises(build_graph(d, ord))
    \/ apply_filters_raises(build_graph(d, ord), d)

exception(d, ord) ==
    IF build_graph_raises(d) THEN "could not convert string to float"
    ELSE IF detect_smurfing_raises(d) THEN "Unknown datetime string format"
    ELSE IF build_account_profiles_raises(build_graph(d, ord))
         THEN "1 validation error for AccountProfile"
         ELSE "Unknown datetime string format"

\* main.py:89-142: the AnalysisResult and the GraphData of the table d
\* (processing_time_seconds, a reading of the clock, is left out)
run_analysis(d, ord) ==
    LET g    == build_graph(d, ord)
        cyc  == detect_cycles(g, d)
        sm   == detect_smurfing(d)
        sh   == detect_shells(g)
        prof == apply_filters(g, d)
        sc   == calculate_scores(prof, cyc, sm, sh)
        sm2  == assign_smurf_rings(sm, Len(cyc) + Len(sh))
        susp == build_suspicious_accounts(sc, cyc, sm2, sh, prof, g)
        fr   == build_fraud_rings(sc, cyc, sm2, sh)
    IN  [result |->
            [suspicious_accounts |-> susp,
             fraud_rings         |-> fr,
             summary |-> [total_accounts_analyzed     |-> Len(prof),
                          suspicious_accounts_flagged |-> Len(susp),
                          fraud_rings_detected        |-> Len(fr),
                          total_transaction_volume    |-> SumSeq(Amounts(d))]],
         gdata |-> build_graph_data(g, sc, ring_map(susp), pattern_map(susp))]

\* the worker publishing status complete before it stores the graph
worker_next_publish_first(step) ==
    CASE step = "run" -> "publish"
      [] step = "publish" -> "cache"
      [] step = "cache" -> "done"

\* the statements of the try block after the pipeline, in program order:
\* graph_cache[analysis_id] = gdata (143), then analyses[analysis_id] = ...
\* COMPLETE (145-149)
worker_next(step) ==
    CASE step = "run" -> "cache"
      [] step = "cache" -> "publish"
      [] step = "publish" -> "done"

\* the uploads: a clean chain of min_chain_length + 1 hops, and the chain
\* with a cell of its first row that does not parse
UploadTables ==
    {ChainTable(min_chain_length + 1, 0, 100, FALSE)}
    \cup {Spoilt(ChainTable(min_chain_length + 1, 0, 100, FALSE), 1, cell) :
            cell \in {"timestamp", "amount"}}

\* the ids requests ask for: those analyze issues, before and after it has
\* issued them
Ids == 1..MaxAnalyses

\* analyze, main.py:179-183: a new id, registered as processing
AnalyzeRegister ==
    /\ handler = Idle
    /\ Cardinality(DOMAIN analyses) < MaxAnalyses
    /\ \E d \in UploadTables :
          LET id == Cardinality(DOMAIN analyses) + 1
          IN  /\ analyses' = (id :> AnalysisStatusResponse(id, "processing", None, None))
                                @@ analyses
              /\ handler' = [endpoint |-> "analyze", id |-> id, df |-> d]
    /\ UNCHANGED <<graph_cache, jobs, reply>>
    /\ UNCHANGED pipeline_vars

\* analyze, main.py:185-191: the run is handed to the executor and the id
\* is returned
AnalyzeSubmit ==
    /\ handler.endpoint = "analyze"
    /\ jobs' = (handler.id :> [pc |-> "queued", df |-> handler.df, result |-> None,
                               gdata |-> None, exc |-> None]) @@ jobs
    /\ reply' = Reply("analyze", handler.id, 200, None)
    /\ handler' = Idle
    /\ UNCHANGED <<analyses, graph_cache>>
    /\ UNCHANGED pipeline_vars

\* the locals of a run after main.py:85-142, its sets of account ids
\* iterated in the order ord: the result and the graph data, or the
\* exception on its way to the except branch
try_block(job, ord) ==
    IF run_raises(job.df, ord)
    THEN [job EXCEPT !.pc = "except", !.exc = Some(exception(job.df, ord))]
    ELSE [job EXCEPT !.pc = worker_next("run"),
                     !.result = Some(run_analysis(job.df, ord).result),
                     !.gdata = Some(run_analysis(job.df, ord).gdata)]

\* the runs a thread of the executor is working on
running == {id \in DOMAIN jobs : jobs[id].pc \notin {"queued", "done"}}

\* _run_analysis, main.py:85-142, on a free thread of the executor: the
\* pipeline runs to its end, or a stage raises
WorkerRun(id) ==
    /\ id \in DOMAIN jobs
    /\ jobs[id].pc = "queued"
    /\ Cardinality(running) < max_workers
    /\ \E ord \in Orders(all_accounts(jobs[id].df)) :
          jobs' = [jobs EXCEPT ![id] = try_block(jobs[id], ord)]
    /\ UNCHANGED <<analyses, graph_cache, handler, reply>>
    /\ UNCHANGED pipeline_vars

\* main.py:143
WorkerCache(id) ==
    /\ id \in DOMAIN jobs
    /\ jobs[id].pc = "cache"
    /\ graph_cache' = (id :> jobs[id].gdata[1]) @@ graph_cache
    /\ jobs' = [jobs EXCEPT ![id].pc = worker_next("cache")]
    /\ UNCHANGED <<analyses, handler, reply>>
    /\ UNCHANGED pipeline_vars

\* main.py:145-149
WorkerPublish(id) ==
    /\ id \in DOMAIN jobs
    /\ jobs[id].pc = "publish"
    /\ analyses' = [analyses EXCEPT ![id] =
                      AnalysisStatusResponse(id, "complete", jobs[id].result, None)]
    /\ jobs' = [jobs EXCEPT ![id].pc = worker_next("publish")]
    /\ UNCHANGED <<graph_cache, handler, reply>>
    /\ UNCHANGED pipeline_vars

\* an except branch that records nothing
WorkerExcept_pass(id) ==
    /\ id \in DOMAIN jobs
    /\ jobs[id].pc = "except"
    /\ jobs' = [jobs EXCEPT ![id].pc = "done"]
    /\ UNCHANGED <<analyses, graph_cache, handler, reply>>
    /\ UNCHANGED pipeline_vars

\* main.py:151-156
WorkerExcept(id) ==
    /\ id \in DOMAIN jobs
    /\ jobs[id].pc = "except"
    /\ analyses' = [analyses EXCEPT ![id] =
                      AnalysisStatusResponse(id, "error", None, jobs[id].exc)]
    /\ jobs' = [jobs EXCEPT ![id].pc = "done"]
    /\ UNCHANGED <<graph_cache, handler, reply>>
    /\ UNCHANGED pipeline_vars

\* get_analysis, main.py:194-200
GetAnalysis(id) ==
    /\ handler = Idle
    /\ reply' = IF id \notin DOMAIN analyses
                THEN Reply("get_analysis", id, 404, None)
                ELSE Reply("get_analysis", id, 200, Some(analyses[id]))
    /\ UNCHANGED <<analyses, graph_cache, jobs, handler>>
    /\ UNCHANGED pipeline_vars

\* download_analysis, main.py:203-220
DownloadAnalysis(id) ==
    /\ handler = Idle
    /\ reply' = IF id \notin DOMAIN analyses
                THEN Reply("download_analysis", id, 404, None)
                ELSE IF analyses[id].status # "complete" \/ analyses[id].result = None
                     THEN Reply("download_analysis", id, 400, None)
                     ELSE Reply("download_analysis", id, 200, analyses[id].result)
    /\ UNCHANGED <<analyses, graph_cache, jobs, handler>>
    /\ UNCHANGED pipeline_vars

\* get_graph, main.py:226-230: the registry is read
GetGraphEntry(id) ==
    /\ handler = Idle
    /\ IF id \notin DOMAIN analyses
       THEN reply' = Reply("get_graph", id, 404, None) /\ handler' = handler
       ELSE IF analyses[id].status # "complete"
            THEN reply' = Reply("get_graph", id, 400, None) /\ handler' = handler
            ELSE reply' = reply /\ handler' = [Idle EXCEPT !.endpoint = "get_graph", !.id = id]
    /\ UNCHANGED <<analyses, graph_cache, jobs>>
    /\ UNCHANGED pipeline_vars

\* get_graph, main.py:232-235: then the cache
GetGraphData ==
    /\ handler.endpoint = "get_graph"
    /\ reply' = IF handler.id \notin DOMAIN graph_cache
                THEN Reply("get_graph", handler.id, 404, None)
                ELSE Reply("get_graph", handler.id, 200, Some(graph_cache[handler.id]))
    /\ handler' = Idle
    /\ UNCHANGED <<analyses, graph_cache, jobs>>
    /\ UNCHANGED pipeline_vars

InitServer ==
    /\ df = <<>>
    /\ order = <<>>
    /\ pc = "done"
    /\ G = NoGraph
    /\ cycles = <<>>
    /\ smurfing_results = <<>>
    /\ shell_results = <<>>
    /\ profiles = <<>>
    /\ scores = <<>>
    /\ suspicious = <<>>
    /\ fraud_rings = <<>>
    /\ ServerStart

NextServer ==
    \/ AnalyzeRegister
    \/ AnalyzeSubmit
    \/ \E id \in Ids : WorkerRun(id)
    \/ \E id \in Ids : WorkerCache(id)
    \/ \E id \in Ids : WorkerPublish(id)
    \/ \E id \in Ids : WorkerExcept(id)
    \/ \E id \in Ids : GetAnalysis(id)
    \/ \E id \in Ids : DownloadAnalysis(id)
    \/ \E id \in Ids : GetGraphEntry(id)
    \/ GetGraphData

SpecServer == InitServer /\ [][NextServer]_vars

\* a handler that has started runs to its return
Return == AnalyzeSubmit \/ GetGraphData

\* a thread of the executor that has a run at one of the statements after
\* the pipeline executes it
Finish(id) == WorkerCache(id) \/ WorkerPublish(id) \/ WorkerExcept(id)

\* the executor starts a queued run when it has a free thread: weak fairness
\* of WorkerRun(id), with its enabling condition and its step written out
\* (WorkerRun(id) is the one action that takes a run out of the queue)
RunEnabled(id) ==
    id \in DOMAIN jobs /\ jobs[id].pc = "queued" /\ Cardinality(running) < max_workers

RunStarted(id) == RunEnabled(id) /\ jobs'[id].pc # "queued"

SpecServerFair ==
    /\ SpecServer
    /\ WF_vars(Return)
    /\ \A id \in Ids :
          /\ WF_vars(Finish(id))
          /\ ([]<>(~RunEnabled(id)) \/ []<><<RunStarted(id)>>_vars)

-----------------------------------------------------------------------------
(* Claims *)

Built == pc # "build_graph"
Scored == pc \in {"assign_rings", "build_suspicious", "build_fraud_rings", "done"}
Listed == pc \in {"build_fraud_rings", "done"}
Done == pc = "done"

\* C3 (as claimed): ring coverage -- in the finished result every
\* SuspiciousAccount is a member of each FraudRing whose ring_id is one of
\* its ring_ids
C3_RingCoverage ==
    Done =>
        \A i \in DOMAIN suspicious : \A r \in suspicious[i].ring_ids :
            \A k \in DOMAIN fraud_rings :
                fraud_rings[k].ring_id = r
                    => suspicious[i].account_id \in SeqToSet(fraud_rings[k].member_accounts)

\* C4 (as claimed): the suspicious accounts are listed by descending score,
\* accounts of equal score by ascending account id
C4_SortedTiesById ==
    Listed =>
        \A i, j \in DOMAIN suspicious :
            i < j =>
                \/ suspicious[i].suspicion_score > suspicious[j].suspicion_score
                \/ /\ suspicious[i].suspicion_score = suspicious[j].suspicion_score
                   /\ suspicious[i].account_id < suspicious[j].account_id

\* C5 (as claimed): detect_shells never returns more results than the cap
C5_ShellCap == Len(shell_results) <= MAX_PATHS

\* the edges of the graph that touch node n
incident(g, n) == {i \in DOMAIN g.edges : g.edges[i].sender = n \/ g.edges[i].receiver = n}

\* C9 (as claimed): for every table, self-loop rows included, every node's
\* transaction_count is the number of edges incident to it, every edge
\* endpoint is a node, and self-loop rows add to no node aggregate
C9_GraphCounts ==
    Built =>
        /\ \A i \in DOMAIN G.edges :
              G.edges[i].sender \in SeqToSet(G.nodes) /\ G.edges[i].receiver \in SeqToSet(G.nodes)
        /\ \A n \in SeqToSet(G.nodes) :
              /\ G.attrs[n].transaction_count = Cardinality(incident(G, n))
              /\ G.attrs[n].total_inflow =
                    SumSeq(Amounts(SelectSeq(G.edges, LAMBDA e : e.receiver = n)))
              /\ G.attrs[n].total_outflow =
                    SumSeq(Amounts(SelectSeq(G.edges, LAMBDA e : e.sender = n)))

\* the rows of the table on the directed pairs of a cycle, closing pair included
rows_on_cycle(nodes) ==
    {k \in DOMAIN df : \E i \in DOMAIN nodes :
        /\ df[k].sender = nodes[i]
        /\ df[k].receiver = nodes[(i % Len(nodes)) + 1]}

\* C6: every CycleResult has 3 <= length <= 5, length = |nodes| = edge_count,
\* a transaction on each directed pair of the cycle, and at most 72 hours
\* between the earliest and the latest transaction on those pairs
C6_CycleInvariant ==
    \A c \in DOMAIN cycles :
        LET nodes == cycles[c].nodes
        IN  /\ 3 <= cycles[c].length /\ cycles[c].length <= 5
            /\ cycles[c].length = Len(nodes)
            /\ cycles[c].edge_count = cycles[c].length
            /\ \A i \in DOMAIN nodes : \E k \in DOMAIN df :
                  df[k].sender = nodes[i] /\ df[k].receiver = nodes[(i % Len(nodes)) + 1]
            /\ \A k, m \in rows_on_cycle(nodes) :
                  df[k].timestamp - df[m].timestamp <= WINDOW

\* C6 witness: a cycle was emitted whose transactions span exactly 72 hours,
\* two of them on the same directed pair, while the table holds a closed
\* walk of the same kind that was left out
C6_Witness ==
    /\ pc = "detect_smurfing"
    /\ \E c \in DOMAIN cycles :
          /\ \E k, m \in rows_on_cycle(cycles[c].nodes) :
                df[k].timestamp - df[m].timestamp = WINDOW
          /\ \E k, m \in rows_on_cycle(cycles[c].nodes) :
                /\ k # m
                /\ df[k].sender = df[m].sender
                /\ df[k].receiver = df[m].receiver
    /\ Len(cycles) < Len(simple_cycles(G, max_length))

\* C7: every ShellResult of either detect_shells has 3 to 6 hops,
\* shell_depth = |intermediate_accounts| = |chain| - 2, and every
\* intermediate account has 0 < transaction_count <= 3, inflow and outflow
\* above 0 and min(inflow, outflow) / max(inflow, outflow) >= 0.5
ShellOK(sh) ==
    /\ 3 <= Len(sh.chain) - 1 /\ Len(sh.chain) - 1 <= 6
    /\ sh.shell_depth = Len(sh.intermediate_accounts)
    /\ sh.shell_depth = Len(sh.chain) - 2
    /\ \A i \in DOMAIN sh.intermediate_accounts :
          LET a == G.attrs[sh.intermediate_accounts[i]]
          IN  /\ 0 < a.transaction_count /\ a.transaction_count <= 3
              /\ a.total_inflow > 0 /\ a.total_outflow > 0
              /\ 2 * Min2(a.total_inflow, a.total_outflow)
                    >= Max2(a.total_inflow, a.total_outflow)

C7_ShellInvariant ==
    /\ \A i \in DOMAIN shell_results : ShellOK(shell_results[i])
    /\ pc = "profiles" =>
          \A i \in DOMAIN detect_shells_optimized(G) : ShellOK(detect_shells_optimized(G)[i])

\* C7 witness: a chain of 6 hops was emitted and one of its intermediates
\* passes inflow/outflow exactly at ratio 0.5
C7_Witness ==
    /\ pc = "profiles"
    /\ \E i \in DOMAIN shell_results :
          /\ Len(shell_results[i].chain) - 1 = 6
          /\ \E k \in DOMAIN shell_results[i].intermediate_accounts :
                LET a == G.attrs[shell_results[i].intermediate_accounts[k]]
                IN  2 * a.total_outflow = a.total_inflow

\* C1: every score calculate_scores retains, and every SuspiciousAccount
\* built from them, has 0 < score <= 100; an account with score 0 is not
\* retained
C1_ScoreRange ==
    Scored =>
        /\ \A i \in DOMAIN scores : 0 < scores[i].score /\ scores[i].score <= 100
        /\ \A i \in DOMAIN suspicious :
              0 < suspicious[i].suspicion_score /\ suspicious[i].suspicion_score <= 100
        /\ \A i \in DOMAIN profiles :
              _score_account(profiles[i].account_id, profiles[i],
                             cycles, smurfing_results, shell_results) = 0
              => \A k \in DOMAIN scores : scores[k].account_id # profiles[i].account_id

\* C1 witness: the accounts are listed; one holds exactly 100 from more than
\* 100 points of detections, and an account with detections is left out
\* because its reductions took it to 0
C1_Witness ==
    /\ Listed
    /\ \E i \in DOMAIN suspicious :
          /\ suspicious[i].suspicion_score = 100
          /\ raw_score(suspicious[i].account_id, cycles, smurfing_results, shell_results) > 100
    /\ \E i \in DOMAIN profiles :
          /\ raw_score(profiles[i].account_id, cycles, smurfing_results, shell_results) > 0
          /\ \A k \in DOMAIN suspicious :
                suspicious[k].account_id # profiles[i].account_id

\* a profile with the flags f
with_flags(profile, f) ==
    [profile EXCEPT !.is_payroll = f[1], !.is_merchant = f[2],
                    !.is_salary = f[3], !.is_established_business = f[4]]

\* C2: with the detections fixed, switching any one of the four flags of a
\* profile from false to true never raises the result of _score_account
C2_MonotoneSuppression ==
    pc = "assign_rings" =>
        \A i \in DOMAIN profiles : \A f \in Flags : \A k \in 1..4 :
            ~f[k] =>
                _score_account(profiles[i].account_id,
                               with_flags(profiles[i], [f EXCEPT ![k] = TRUE]),
                               cycles, smurfing_results, shell_results)
                <= _score_account(profiles[i].account_id,
                                  with_flags(profiles[i], f),
                                  cycles, smurfing_results, shell_results)

\* C2 witness: scores were calculated for an account with detections whose
\* payroll and merchant flags are both set, and its score is below what it
\* would be with the payroll flag alone
C2_Witness ==
    /\ pc = "assign_rings"
    /\ \E i \in DOMAIN profiles :
          /\ profiles[i].is_payroll /\ profiles[i].is_merchant
          /\ score_get(scores, profiles[i].account_id) > 0
          /\ score_get(scores, profiles[i].account_id)
                < _score_account(profiles[i].account_id,
                                 [profiles[i] EXCEPT !.is_merchant = FALSE],
                                 cycles, smurfing_results, shell_results)

\* the rows of account acct in one direction, in time order
fan_group(acct, pattern) ==
    sort_values(SelectSeq(df, LAMBDA r :
        IF pattern = "fan_out" THEN r.sender = acct ELSE r.receiver = acct))

counterparty(r, pattern) == IF pattern = "fan_out" THEN r.receiver ELSE r.sender

\* C8: every SmurfingResult has at least 10 unique counterparties, a window
\* of at most 72 hours, and unique_counterparties is the number of distinct
\* counterparties in a contiguous index range of the time-sorted rows of the
\* account that starts at window_start and ends at window_end
C8_SmurfWindow ==
    \A m \in DOMAIN smurfing_results :
        LET r   == smurfing_results[m]
            grp == fan_group(r.account_id, r.pattern_type)
        IN  /\ r.unique_counterparties >= 10
            /\ r.window_end - r.window_start <= WINDOW
            /\ \E left, right \in DOMAIN grp :
                  /\ left <= right
                  /\ grp[left].timestamp = r.window_start
                  /\ grp[right].timestamp = r.window_end
                  /\ r.unique_counterparties =
                        Cardinality({counterparty(grp[i], r.pattern_type) : i \in left..right})

\* C8 witness: a result whose window is exactly 72 hours long and starts
\* after the first row of the account, which has more rows than the window
C8_Witness ==
    /\ pc = "detect_shells"
    /\ \E m \in DOMAIN smurfing_results :
          LET r   == smurfing_results[m]
              grp == fan_group(r.account_id, r.pattern_type)
          IN  /\ r.window_end - r.window_start = WINDOW
              /\ r.window_start > grp[1].timestamp
              /\ Len(grp) > r.unique_counterparties

\* the fan-out scenario: account 1 pays $900 to 12 receivers, 10 minutes apart
FanOutScenario == FanTable(12, 10, 0, "out", 900)

\* what the scenario yields whatever the scoring: one fan_out result of 12
\* counterparties and $10,800, faster than $5,000 an hour
FanOutDetected ==
    /\ Len(smurfing_results) = 1
    /\ smurfing_results[1].account_id = 1
    /\ smurfing_results[1].pattern_type = "fan_out"
    /\ smurfing_results[1].unique_counterparties = 12
    /\ smurfing_results[1].total_amount = 10800
    /\ smurfing_results[1].velocity_per_hour > 500000

\* C10 (as claimed): in the fan-out scenario the sender carries fan_out,
\* structuring and high_velocity and scores 15 + 5 + 10 = 30
C10_FanOutAsClaimed ==
    (Done /\ df = FanOutScenario) =>
        /\ FanOutDetected
        /\ \E i \in DOMAIN suspicious :
              /\ suspicious[i].account_id = 1
              /\ {Tag("fan_out", 0), Tag("structuring", 0), Tag("high_velocity", 0)}
                    \subseteq suspicious[i].detected_patterns
              /\ suspicious[i].suspicion_score = 30

\* C10 (amended): in the fan-out scenario the sender carries fan_out and
\* high_velocity but not structuring, which needs more than 20
\* counterparties, and scores 15 + 10 = 25
C10_FanOutAmended ==
    (Done /\ df = FanOutScenario) =>
        /\ FanOutDetected
        /\ \E i \in DOMAIN suspicious :
              /\ suspicious[i].account_id = 1
              /\ suspicious[i].detected_patterns = {Tag("fan_out", 0), Tag("high_velocity", 0)}
              /\ suspicious[i].suspicion_score = 25

\* C10 witness: the scenario has run to the end and its sender is listed
C10_Witness ==
    /\ Done
    /\ df = FanOutScenario
    /\ \E i \in DOMAIN suspicious : suspicious[i].account_id = 1

\* the shell-chain scenario: the only rows are 1 -> 2 -> 3 -> 4, $100 each
ShellChainScenario == ChainTable(3, 0, 100, FALSE)

\* C11: in the shell-chain scenario detect_shells emits exactly one
\* ShellResult, chain [A,B,C,D] with shell_depth 2; B and C score 25 and A
\* and D are not listed as suspicious accounts
C11_ShellChainScenario ==
    (Done /\ df = ShellChainScenario) =>
        /\ Len(shell_results) = 1
        /\ shell_results[1].chain = <<1, 2, 3, 4>>
        /\ shell_results[1].shell_depth = 2
        /\ {suspicious[i].account_id : i \in DOMAIN suspicious} = {2, 3}
        /\ \A i \in DOMAIN suspicious : suspicious[i].suspicion_score = 25

\* C11 witness: the scenario has run to the end with a shell result and
\* listed accounts
C11_Witness ==
    /\ Done
    /\ df = ShellChainScenario
    /\ shell_results # <<>>
    /\ suspicious # <<>>

\* the triangle scenario: A -> B at t = 0, B -> C an hour later, C -> A an
\* hour after that, $5000 each
TriangleScenario == <<Row(1, 2, 5000, 0), Row(2, 3, 5000, 60), Row(3, 1, 5000, 120)>>

\* C12: in the triangle scenario the pipeline emits exactly one CycleResult,
\* of length 3, total_amount 15000 and span 2 hours, no shell and no smurfing
\* result; A, B and C score 70 each and are the three suspicious accounts,
\* each carrying cycle_length_3 and high_value_cycle
C12_TriangleScenario ==
    (Done /\ df = TriangleScenario) =>
        /\ Len(cycles) = 1
        /\ cycles[1].length = 3
        /\ SeqToSet(cycles[1].nodes) = {1, 2, 3}
        /\ cycles[1].total_amount = 15000
        /\ cycles[1].time_span_hours = 200
        /\ shell_results = <<>>
        /\ smurfing_results = <<>>
        /\ Len(suspicious) = 3
        /\ {suspicious[i].account_id : i \in DOMAIN suspicious} = {1, 2, 3}
        /\ \A i \in DOMAIN suspicious :
              /\ suspicious[i].suspicion_score = 70
              /\ {Tag("cycle_length", 3), Tag("high_value_cycle", 0)}
                    \subseteq suspicious[i].detected_patterns

\* C12 witness: the triangle has run to the end, in an iteration order of
\* the accounts that is not the ascending one, and its cycle was found
C12_Witness ==
    /\ Done
    /\ df = TriangleScenario
    /\ order # <<1, 2, 3>>
    /\ cycles # <<>>

\* an account whose profile is flagged established business and whose only
\* detection is cycle c, of length 5 and at most $10,000
overridden(acct, c) ==
    /\ \E i \in DOMAIN profiles :
          profiles[i].account_id = acct /\ profiles[i].is_established_business
    /\ acct \in SeqToSet(cycles[c].nodes)
    /\ cycles[c].length = 5
    /\ cycles[c].total_amount <= 10000
    /\ \A d \in DOMAIN cycles : d # c => acct \notin SeqToSet(cycles[d].nodes)
    /\ \A m \in DOMAIN smurfing_results : smurfing_results[m].account_id # acct
    /\ \A h \in DOMAIN shell_results :
          acct \notin SeqToSet(shell_results[h].intermediate_accounts)

\* the scores of the listed accounts among members, summed
listed_sum(members) ==
    SumSeq([i \in DOMAIN suspicious |->
        IF suspicious[i].account_id \in SeqToSet(members)
        THEN suspicious[i].suspicion_score ELSE 0])

\* C13: an account flagged established business whose only detection is one
\* cycle worth 20 points is not retained and not listed, while the FraudRing
\* of the cycle keeps it as a member and averages it in with score 0
C13_BusinessOverride ==
    Done =>
        \A c \in DOMAIN cycles : \A acct \in SeqToSet(cycles[c].nodes) :
            overridden(acct, c) =>
                /\ \A i \in DOMAIN scores : scores[i].account_id # acct
                /\ \A i \in DOMAIN suspicious : suspicious[i].account_id # acct
                /\ \E k \in DOMAIN fraud_rings :
                      /\ fraud_rings[k].pattern_type = "cycle"
                      /\ fraud_rings[k].member_accounts = cycles[c].nodes
                      /\ acct \in SeqToSet(fraud_rings[k].member_accounts)
                      /\ fraud_rings[k].risk_score =
                            RoundDiv(10 * listed_sum(cycles[c].nodes), Len(cycles[c].nodes))

\* C13 witness: the run is over, an overridden account exists, and other
\* members of its cycle are listed with a score
C13_Witness ==
    /\ Done
    /\ \E c \in DOMAIN cycles : \E acct \in SeqToSet(cycles[c].nodes) :
          /\ overridden(acct, c)
          /\ listed_sum(cycles[c].nodes) > 0

\* what _run_analysis returns for the table d when its sets of account ids
\* are iterated in the order ord
RunResult(d, ord) ==
    LET g    == build_graph(d, ord)
        cyc  == detect_cycles(g, d)
        sm   == detect_smurfing(d)
        sh   == detect_shells(g)
        prof == apply_filters(g, d)
        sc   == calculate_scores(prof, cyc, sm, sh)
        sm2  == assign_smurf_rings(sm, Len(cyc) + Len(sh))
    IN  [suspicious_accounts |-> build_suspicious_accounts(sc, cyc, sm2, sh, prof, g),
         fraud_rings         |-> build_fraud_rings(sc, cyc, sm2, sh)]

\* C14 (as claimed): the result of a run is the result of the run on the same
\* table that iterates the accounts in ascending order, so that two runs on
\* one table never differ
C14_Deterministic ==
    Done =>
        RunResult(df, Ascending(all_accounts(df)))
            = [suspicious_accounts |-> suspicious, fraud_rings |-> fraud_rings]

\* how many of the first k smurfing results have no ring id
unlabelled(k) == Cardinality({j \in 1..k : smurfing_results[j].ring_id = <<>>})

sanitised(d) ==
    SelectSeq([i \in DOMAIN d |->
                  [d[i] EXCEPT !.amount = IF d[i].amount = NonNumeric THEN 0 ELSE d[i].amount]],
              LAMBDA r : r.timestamp # NaT)

\* C16 (as claimed): a table with a timestamp that does not parse or an
\* amount that is not a number never ends in an analysis error, and its
\* graph, detections and scores are those of the table without the row of
\* the timestamp and with amount 0 for the amount
C16_UnparsedCells ==
    /\ pc # "error"
    /\ Done =>
          LET d   == sanitised(df)
              ord == SelectSeq(order, LAMBDA a : a \in all_accounts(d))
              g   == build_graph(d, ord)
          IN  /\ G = g
              /\ cycles = detect_cycles(g, d)
              /\ shell_results = detect_shells(g)
              /\ scores = calculate_scores(apply_filters(g, d), detect_cycles(g, d),
                                           detect_smurfing(d), detect_shells(g))


\* the entry of id is final: complete or error
final(id) == analyses[id].status \in {"complete", "error"}

\* a stage of the run of id has raised
raised(id) == id \in DOMAIN jobs /\ jobs[id].exc # None

C18_GraphAfterCache ==
    /\ [](/\ \A id \in DOMAIN analyses :
               analyses[id].status = "complete" => id \in DOMAIN graph_cache
          /\ DOMAIN jobs \subseteq DOMAIN analyses
          /\ handler.endpoint = "get_graph" => handler.id \in DOMAIN graph_cache)
    /\ [][/\ \A id \in Ids :
               GetGraphEntry(id) =>
                  /\ id \notin DOMAIN analyses => reply' = Reply("get_graph", id, 404, None)
                  /\ id \in DOMAIN analyses =>
                        /\ analyses[id].status \in {"processing", "error"}
                              => reply' = Reply("get_graph", id, 400, None)
                        /\ analyses[id].status = "complete"
                              => reply' = reply /\ handler'.endpoint = "get_graph"
          /\ GetGraphData =>
               reply' = Reply("get_graph", handler.id, 200, Some(graph_cache[handler.id]))
          /\ AnalyzeSubmit => analyses[handler.id].status = "processing"
          /\ \A id \in DOMAIN jobs : GetAnalysis(id) => reply'.code # 404]_vars

\* C18 witness: get_graph has returned the graph of a complete analysis
\* while the run of another has stored nothing yet
C18_Witness ==
    \E id \in DOMAIN analyses :
        /\ analyses[id].status = "complete"
        /\ reply = Reply("get_graph", id, 200, Some(graph_cache[id]))
        /\ \E other \in DOMAIN jobs : other # id /\ jobs[other].pc \in {"queued", "cache"}


\* the list s in every order
perms(s) == {[i \in DOMAIN s |-> s[p[i]]] : p \in Arrangements(DOMAIN s)}

\* the four reductions of _score_account: the flag and its penalty
suppressions ==
    << [flag |-> "is_payroll", penalty |-> 30],
       [flag |-> "is_merchant", penalty |-> 25],
       [flag |-> "is_salary", penalty |-> 20],
       [flag |-> "is_established_business", penalty |-> 35] >>

\* the reductions of the set flags applied in the order ord
RECURSIVE reduced_in(_, _, _)
reduced_in(score, profile, ord) ==
    IF ord = <<>> THEN score
    ELSE LET sp == suppressions[Head(ord)]
         IN  reduced_in(IF profile[sp.flag] THEN reduce(score, sp.penalty) ELSE score,
                        profile, Tail(ord))

\* the penalties of the set flags, added up
penalties(profile) ==
    SumSeq([k \in DOMAIN suppressions |->
              IF profile[suppressions[k].flag] THEN suppressions[k].penalty ELSE 0])

\* C19: order independence of scoring -- calculate_scores returns the same
\* score map for every order of the cycles, of the smurfing results and of
\* the shells; the four reductions give the same in every order of
\* application, namely max(0, raw - sum of the penalties of the set flags),
\* and the score is that capped at 100
C19_OrderIndependent ==
    pc = "assign_rings" =>
        /\ \A cs \in perms(cycles) : \A ss \in perms(smurfing_results) :
             \A hs \in perms(shell_results) :
                calculate_scores(profiles, cs, ss, hs) = scores
        /\ \A i \in DOMAIN profiles :
             LET raw   == raw_score(profiles[i].account_id, cycles, smurfing_results,
                                    shell_results)
                 floor == Max2(0, raw - penalties(profiles[i]))
             IN  /\ \A ord \in Arrangements(1..4) : reduced_in(raw, profiles[i], ord) = floor
                 /\ reduced(raw, profiles[i]) = floor
                 /\ score_get(scores, profiles[i].account_id) = Min2(100, floor)

\* C19 witness: scores were calculated from two or more cycles of different
\* lengths, two smurfing results and two shells, for an account whose payroll
\* and merchant flags are set, whose raw score is above 100 and whose score
\* is the raw score less the two penalties, capped at 100
C19_Witness ==
    /\ pc = "assign_rings"
    /\ Len(smurfing_results) = 2 /\ Len(shell_results) = 2
    /\ \E a, b \in DOMAIN cycles : cycles[a].length # cycles[b].length
    /\ \E i \in DOMAIN profiles :
          LET raw == raw_score(profiles[i].account_id, cycles, smurfing_results,
                               shell_results)
          IN  /\ profiles[i].is_payroll /\ profiles[i].is_merchant
              /\ raw > 100
              /\ score_get(scores, profiles[i].account_id) = Min2(100, raw - 55)


\* C20 (as claimed): in every ShellResult of the detect_shells that
\* _run_analysis calls, the first and the last account of the chain are not
\* shell candidates, the first is a predecessor of a candidate and the last
\* a successor of one
C20_ChainEndsNotCandidates ==
    pc \notin {"build_graph", "detect_cycles", "detect_smurfing", "detect_shells"} =>
        \A k \in DOMAIN shell_results :
            LET chain == shell_results[k].chain
                first == chain[1]
                last  == chain[Len(chain)]
            IN  /\ first \notin shell_candidates(G)
                /\ last \notin shell_candidates(G)
                /\ \E c \in shell_candidates(G) : first \in pred_set(G, c)
                /\ \E c \in shell_candidates(G) : last \in succ_set(G, c)


\* the detections that contribute to the score of acct
in_cycle(acct, c) == acct \in SeqToSet(cycles[c].nodes)
is_smurf(acct, m) == smurfing_results[m].account_id = acct
is_intermediate(acct, h) == acct \in SeqToSet(shell_results[h].intermediate_accounts)

\* C21 (as claimed): the patterns and the ring ids of every listed account
\* come only from detections that contributed to its score -- a shell_depth
\* tag and a shell's ring id only from a shell the account is an intermediate
\* of, cycle tags only from a cycle it is on, smurf tags only from a smurfing
\* result of the account
C21_PatternsFromContributions ==
    Listed =>
        \A i \in DOMAIN suspicious :
            LET a == suspicious[i].account_id
            IN  /\ \A t \in suspicious[i].detected_patterns :
                      \/ \E c \in DOMAIN cycles :
                            /\ in_cycle(a, c)
                            /\ \/ t = Tag("cycle_length", cycles[c].length)
                               \/ t = Tag("high_value_cycle", 0)
                                     /\ is_high_value(cycles[c].total_amount)
                      \/ \E m \in DOMAIN smurfing_results :
                            /\ is_smurf(a, m)
                            /\ \/ t = Tag(smurfing_results[m].pattern_type, 0)
                               \/ t = Tag("high_velocity", 0)
                                     /\ is_high_velocity(smurfing_results[m].velocity_per_hour)
                               \/ t = Tag("structuring", 0)
                                     /\ is_structuring(smurfing_results[m].unique_counterparties)
                      \/ \E h \in DOMAIN shell_results :
                            /\ is_intermediate(a, h)
                            /\ t = Tag("shell_depth", shell_results[h].shell_depth)
                /\ \A rid \in suspicious[i].ring_ids :
                      \/ \E c \in DOMAIN cycles : in_cycle(a, c) /\ cycles[c].ring_id = rid
                      \/ \E m \in DOMAIN smurfing_results :
                            is_smurf(a, m) /\ smurfing_results[m].ring_id = rid
                      \/ \E h \in DOMAIN shell_results :
                            is_intermediate(a, h) /\ shell_results[h].ring_id = rid


\* the contiguous ranges of the time-sorted rows grp that span at most 72
\* hours, and the distinct counterparties of a range
ranges(grp) ==
    {w \in (DOMAIN grp) \X (DOMAIN grp) :
        w[1] <= w[2] /\ grp[w[2]].timestamp - grp[w[1]].timestamp <= WINDOW}
distinct(grp, pattern, w) ==
    Cardinality({counterparty(grp[i], pattern) : i \in w[1]..w[2]})
most_distinct(grp, pattern) ==
    IF grp = <<>> THEN 0
    ELSE MaxOf({distinct(grp, pattern, w) : w \in ranges(grp)})

\* the results of one account in one direction
fan_results(acct, pattern) ==
    SelectSeq(smurfing_results, LAMBDA r : r.account_id = acct /\ r.pattern_type = pattern)

\* C22: for every account and direction the best_unique of the two-pointer
\* loop is the most distinct counterparties of any contiguous range of the
\* time-sorted rows that spans at most 72 hours; a result is emitted iff
\* that maximum reaches the threshold, and its window is the one of the
\* smallest right index among the windows that reach the maximum
C22_TwoPointerMaximum ==
    pc \notin {"build_graph", "detect_cycles", "detect_smurfing"} =>
        \A pattern \in {"fan_in", "fan_out"} : \A acct \in all_accounts(df) :
            LET grp  == fan_group(acct, pattern)
                col  == IF pattern = "fan_out" THEN "receiver" ELSE "sender"
                most == most_distinct(grp, pattern)
                res  == fan_results(acct, pattern)
                ends == {w[2] : w \in {v \in ranges(grp) : distinct(grp, pattern, v) = most}}
            IN  /\ Len(grp) >= fan_threshold =>
                      fan_scan(grp, col, 1, 1, NoBest).unique = most
                /\ Len(res) = (IF most >= fan_threshold THEN 1 ELSE 0)
                /\ \A k \in DOMAIN res :
                      /\ res[k].unique_counterparties = most
                      /\ res[k].window_end = grp[MinOf(ends)].timestamp
                      /\ \E w \in ranges(grp) :
                            /\ w[2] = MinOf(ends)
                            /\ grp[w[1]].timestamp = res[k].window_start
                            /\ distinct(grp, pattern, w) = most

\* C22 witness: a result whose window starts after the first row of the
\* account and ends before its last row, a later window holding as many
\* distinct counterparties
C22_Witness ==
    /\ pc = "detect_shells"
    /\ \E m \in DOMAIN smurfing_results :
          LET r   == smurfing_results[m]
              grp == fan_group(r.account_id, r.pattern_type)
          IN  /\ r.window_start > grp[1].timestamp
              /\ r.window_end < grp[Len(grp)].timestamp
              /\ \E w \in ranges(grp) :
                    /\ grp[w[2]].timestamp > r.window_end
                    /\ distinct(grp, r.pattern_type, w) = r.unique_counterparties


\* the rings of one pattern, in list order
rings_of(pattern) == SelectSeq(fraud_rings, LAMBDA r : r.pattern_type = pattern)

\* the scores of the members, a member without a score counted as 0
scores_of(members) == [i \in DOMAIN members |-> score_get(scores, members[i])]

\* the risk of a ring in tenths: the mean of the members' scores to one
\* decimal, times 1.2 and capped at 100 if boosted
risk_of(members, boosted) ==
    IF boosted
    THEN Min2(1000, RoundDiv(12 * SumSeq(scores_of(members)), Len(members)))
    ELSE RoundDiv(10 * SumSeq(scores_of(members)), Len(members))

all_above_70(members) == \A i \in DOMAIN members : score_get(scores, members[i]) > 70

\* C23: every FraudRing has a risk_score in [0, 100] that is the mean of its
\* members' scores (a member without a score counted as 0, to one decimal),
\* times 1.2 and capped at 100 exactly when the ring is a cycle whose members
\* all score strictly above 70; there is one ring per cycle, per shell and
\* per smurf ring id, and the list is sorted by risk_score, descending
C23_FraudRingRisk ==
    Done =>
        /\ \A k \in DOMAIN fraud_rings :
              LET r == fraud_rings[k]
              IN  /\ 0 <= r.risk_score /\ r.risk_score <= 1000
                  /\ r.risk_score =
                        risk_of(r.member_accounts,
                                r.pattern_type = "cycle" /\ all_above_70(r.member_accounts))
        /\ Len(rings_of("cycle")) = Len(cycles)
        /\ \A c \in DOMAIN cycles :
              \E k \in DOMAIN rings_of("cycle") :
                  /\ rings_of("cycle")[k].ring_id = cycles[c].ring_id
                  /\ rings_of("cycle")[k].member_accounts = cycles[c].nodes
        /\ Len(rings_of("shell")) = Len(shell_results)
        /\ \A h \in DOMAIN shell_results :
              \E k \in DOMAIN rings_of("shell") :
                  /\ rings_of("shell")[k].ring_id = shell_results[h].ring_id
                  /\ rings_of("shell")[k].member_accounts = shell_results[h].chain
        /\ Len(rings_of("smurfing"))
              = Cardinality({smurfing_results[m].ring_id : m \in DOMAIN smurfing_results})
        /\ \A m \in DOMAIN smurfing_results :
              \E k \in DOMAIN rings_of("smurfing") :
                  /\ rings_of("smurfing")[k].ring_id = smurfing_results[m].ring_id
                  /\ smurfing_results[m].account_id
                        \in SeqToSet(rings_of("smurfing")[k].member_accounts)
        /\ \A i, j \in DOMAIN fraud_rings :
              i < j => fraud_rings[i].risk_score >= fraud_rings[j].risk_score

\* C23 witness: the rings are built; a cycle ring is boosted and capped at
\* 100, and there are a smurfing ring and a shell ring with a member that has
\* no score
C23_Witness ==
    /\ Done
    /\ \E k \in DOMAIN fraud_rings :
          /\ fraud_rings[k].pattern_type = "cycle"
          /\ all_above_70(fraud_rings[k].member_accounts)
          /\ fraud_rings[k].risk_score = 1000
          /\ 12 * SumSeq(scores_of(fraud_rings[k].member_accounts))
                > 1000 * Len(fraud_rings[k].member_accounts)
    /\ rings_of("smurfing") # <<>>
    /\ \E k \in DOMAIN fraud_rings :
          /\ fraud_rings[k].pattern_type = "shell"
          /\ \E i \in DOMAIN fraud_rings[k].member_accounts :
                \A e \in DOMAIN scores :
                    scores[e].account_id # fraud_rings[k].member_accounts[i]

\* the directed pairs of the simple projection: a pair for every row of the
\* table that is not a self-loop
pairs == {<<df[k].sender, df[k].receiver>> : k \in {j \in DOMAIN df : df[j].sender # df[j].receiver}}

\* the simple directed paths of n nodes in the simple projection
RECURSIVE paths_of(_)
paths_of(n) ==
    IF n = 1 THEN {<<a>> : a \in all_accounts(df)}
    ELSE {q \in {Append(p, v) : p \in paths_of(n - 1), v \in all_accounts(df)} :
             /\ <<q[n - 1], q[n]>> \in pairs
             /\ \A i \in 1..(n - 1) : q[i] # q[n]}

\* the simple directed cycles of n nodes, one sequence per starting node
closed_paths(n) == {p \in paths_of(n) : <<p[n], p[1]>> \in pairs}

\* the same cycle started from each of its nodes
rotations(p) ==
    {[i \in DOMAIN p |-> p[((i + s - 1) % Len(p)) + 1]] : s \in 0..(Len(p) - 1)}

\* the transactions on the directed pairs of p are at most 72 hours apart
within_window(p) ==
    \A k, m \in rows_on_cycle(p) : df[k].timestamp - df[m].timestamp <= WINDOW

\* C24: when detect_cycles has returned fewer than 5,000 cycles, every simple directed
\* cycle of 3 to 5 nodes of the simple projection whose transactions on its
\* directed pairs span at most 72 hours is in the output of detect_cycles
\* exactly once, whichever node it is started from, and the i-th accepted
\* cycle carries the ring id RING_i, counted from 1
C24_CycleCompleteness ==
    (pc = "detect_smurfing" /\ Len(cycles) < MAX_CYCLES) =>
        /\ \A n \in 3..5 : \A p \in closed_paths(n) :
              within_window(p) =>
                  Cardinality({c \in DOMAIN cycles : cycles[c].nodes \in rotations(p)}) = 1
        /\ \A i \in DOMAIN cycles : cycles[i].ring_id = <<"RING", i>>

\* C24 witness: detect_cycles has returned two cycles, one of 5 nodes, from a
\* table whose accounts are not iterated in ascending order; the table also
\* holds a cycle of two, a ring of 6 and a cycle of 3 whose transactions
\* span 100 hours, none of them in the output
C24_Witness ==
    /\ pc = "detect_smurfing"
    /\ Len(cycles) >= 2
    /\ \E c \in DOMAIN cycles : cycles[c].length = 5
    /\ order # Ascending(all_accounts(df))
    /\ closed_paths(2) # {}
    /\ closed_paths(6) # {}
    /\ \E p \in closed_paths(3) :
          /\ ~within_window(p)
          /\ \A c \in DOMAIN cycles : cycles[c].nodes \notin rotations(p)

\* C25 (as claimed): ring ids identify rings -- in the finished result no two
\* FraudRings carry the same ring_id
C25_RingIdsDistinct ==
    Done =>
        \A i, j \in DOMAIN fraud_rings :
            i # j => fraud_rings[i].ring_id # fraud_rings[j].ring_id

\* C26: every emitted SuspiciousAccount has a ring_id that is not empty and
\* is one of its ring_ids, at least one detected pattern, and connected
\* accounts that do not include the account itself
C26_AccountNamesRing ==
    Listed =>
        \A i \in DOMAIN suspicious :
            /\ suspicious[i].ring_id # <<>>
            /\ suspicious[i].ring_id \in suspicious[i].ring_ids
            /\ suspicious[i].detected_patterns # {}
            /\ suspicious[i].account_id \notin suspicious[i].connected_accounts


\* C26 witness: a listed account that pays itself in the table, has a
\* smurfing result as its only detection and RING_1, given to that result by
\* step 5, as its ring id, while others are connected to it
C26_Witness ==
    /\ Listed
    /\ cycles = <<>> /\ shell_results = <<>>
    /\ \E i \in DOMAIN suspicious :
          /\ \E k \in DOMAIN df :
                df[k].sender = suspicious[i].account_id
                /\ df[k].receiver = suspicious[i].account_id
          /\ \E m \in DOMAIN smurfing_results :
                smurfing_results[m].account_id = suspicious[i].account_id
          /\ suspicious[i].ring_id = <<"RING", 1>>
          /\ suspicious[i].connected_accounts # {}
====
